---------------------------- MODULE Spec2Model ----------------------------
(***************************************************************************)
(* Strategy validation engine of the pit-stop planner (src/tools/strat.py) *)
(* with the baseline strategy document of src/db.py.                       *)
(*                                                                         *)
(* A strategy document is a nested mapping.  A mapping is modelled as a    *)
(* function whose DOMAIN is the set of keys present, so that dict.get with *)
(* a default, the "in" test and a KeyError are all questions about DOMAIN. *)
(* A scalar of the wrong type (a lap that is not a number, a compound that *)
(* is not a string) is modelled by leaving the key out of the mapping and  *)
(* naming it in the mapping's "malformed" set: text where a number is      *)
(* expected, a non-zero number where text, a list or a mapping is          *)
(* expected.  A stint or a whole document that is not a mapping at all is  *)
(* the record [scalar |-> ...]: "null" for the value of an empty text,     *)
(* "text" for a plain sentence.                                            *)
(***************************************************************************)
EXTENDS Integers, Sequences, FiniteSets, TLC

VARIABLES
    doc,        \* the candidate document, as yaml.safe_load returns it
    parses,     \* whether the candidate text deserializes at all
    edits,      \* number of changes applied to the base document so far
    pc,         \* "draft": not validated; "done": domain_validate_strategy returned;
                \* "raised": domain_validate_strategy raised to its caller;
                \* "checked": check_yaml_completeness returned;
                \* "validated": validate_strategy_yaml returned;
                \* "saved": save_updated_strategy returned;
                \* "diffed": diff_strategies returned;
                \* "diff_raised": diff_strategies raised to its caller
    errors,     \* the errors list of domain_validate_strategy
    warnings,   \* the warnings list of domain_validate_strategy
    report,     \* the returned report: its prefix, errors and warnings sections
    calls,      \* the tool calls made so far, in order: tool, text, result
    store,      \* the strategies table: whether a connection is configured,
                \* and the document stored under each name
    cursor,     \* the module-level cursor of src/db.py: the result set of
                \* its last statement, as far as it has not been fetched
    requests,   \* the POST /strategies requests: position in the handler,
                \* its local variables and its response
    justification,  \* a call of structured_justification_response: how it
                \* was called, its payload and what came back
    supervision,    \* the supervisor graph: the node that runs, the change
                \* it works on, and the nodes that have run
    script      \* the generator script: its position, the attempt number,
                \* final_yaml_text and what each attempt produced

toolVars == <<doc, parses, edits, pc, errors, warnings, report>>
serverVars == <<cursor, requests>>
orchestrationVars == <<justification, supervision, script>>
vars == <<doc, parses, edits, pc, errors, warnings, report, calls, store,
          cursor, requests, justification, supervision, script>>

(***************************************************************************)
(* Bounds of the model.                                                    *)
(***************************************************************************)
MaxEdits == 2
MaxCalls == 3
NRequests == 2
MaxHandoffs == 2

(***************************************************************************)
(* Mappings.                                                               *)
(***************************************************************************)
\* dict.get(k, default)
Get(d, k, default) == IF k \in DOMAIN d THEN d[k] ELSE default

\* d with key k set to v (added when absent)
Put(d, k, v) == [x \in DOMAIN d \cup {k} |-> IF x = k THEN v ELSE d[x]]

\* d without key k
Del(d, k) == [x \in DOMAIN d \ {k} |-> d[x]]

\* whether the value under key k is a scalar of the wrong type
Malformed(d, k) == "malformed" \in DOMAIN d /\ k \in d.malformed

\* d with the value under k replaced by a scalar of the wrong type
Spoil(d, k) == Put(Del(d, k), "malformed", Get(d, "malformed", {}) \cup {k})

IsMapping(s) == "scalar" \notin DOMAIN s

(***************************************************************************)
(* The vocabulary of the documents.                                        *)
(***************************************************************************)
WetCompounds == {"Wet", "Intermediate"}
DryCompounds == {"Soft", "Medium", "Hard"}
Compounds == DryCompounds \cup WetCompounds

(***************************************************************************)
(* The baseline strategy (the example of src/db.py), restricted to the     *)
(* fields the validators read; pit_ops and costs are opaque blocks.        *)
(***************************************************************************)
BaselineInventory ==
    [Soft_new |-> 1, Medium_new |-> 2, Hard_new |-> 1,
     Soft_used |-> 0, Medium_used |-> 0, Hard_used |-> 0,
     Intermediate_new |-> 1, Wet_new |-> 1]

BaselineConstraints ==
    [min_compounds_required |-> 2, allow_used_tyre |-> FALSE, max_pitstops |-> 3]

BaselineStints ==
    << [stint_id |-> 1, start_lap |-> 1, planned_inlap |-> 17,
        compound |-> "Intermediate", set_condition |-> "new", target_len_laps |-> 17],
       [stint_id |-> 2, start_lap |-> 18, planned_inlap |-> 38,
        compound |-> "Wet", set_condition |-> "new", target_len_laps |-> 21],
       [stint_id |-> 3, start_lap |-> 39, planned_inlap |-> 0,
        compound |-> "Intermediate", set_condition |-> "new", target_len_laps |-> 19] >>

BaselineStrategy ==
    [version |-> 1,
     metadata |-> [strategy_id |-> "STRAT-2025-BHR-LEC-A", track |-> [laps |-> 57]],
     assumptions |-> [tire_availability |-> BaselineInventory,
                      constraints |-> BaselineConstraints],
     user_view |-> [planned_pit_laps |-> <<17, 38>>],
     stints |-> BaselineStints,
     pit_ops |-> "block",
     costs |-> "block"]

WithStints(d, s) == Put(d, "stints", s)

\* The same plan on dry tyres: Soft, Medium, Hard.
DryStints ==
    << Put(BaselineStints[1], "compound", "Soft"),
       Put(BaselineStints[2], "compound", "Medium"),
       Put(BaselineStints[3], "compound", "Hard") >>

\* A one-stint run to the flag on a used set of Soft.
SingleStint ==
    << [stint_id |-> 1, start_lap |-> 1, planned_inlap |-> 0,
        compound |-> "Soft", set_condition |-> "used", target_len_laps |-> 57] >>

\* The documents a candidate is derived from.
BaseDocuments ==
    {BaselineStrategy,
     WithStints(BaselineStrategy, DryStints),
     [WithStints(BaselineStrategy, SingleStint) EXCEPT
         !.user_view = [planned_pit_laps |-> <<>>]]}

(***************************************************************************)
(* domain_validate_strategy, lines 142-154: the fields read inside the     *)
(* try block.  Any exception there gives the "Domain parse error" report.  *)
(***************************************************************************)
EmptyMap == <<>>

\* Python's "k in d"
In(d, k) == k \in DOMAIN d \/ Malformed(d, k)

\* int(x) of a number is the number; "x or 0" turns an absent value into 0
ToInt(x) == x

Assumptions(d) == Get(d, "assumptions", EmptyMap)
Constraints(d) == Get(Assumptions(d), "constraints", EmptyMap)
Inventory(d) == Get(Assumptions(d), "tire_availability", EmptyMap)
UserView(d) == Get(d, "user_view", EmptyMap)

\* DomainParseFails with the constraints read as required entries
DomainParseFails_Required(d) ==
    \/ ~In(d, "metadata")
    \/ Malformed(d, "metadata")
    \/ ~In(d.metadata, "track")
    \/ Malformed(d.metadata, "track")
    \/ ~In(d.metadata.track, "laps")
    \/ Malformed(d.metadata.track, "laps")
    \/ Malformed(d, "assumptions")
    \/ Malformed(Assumptions(d), "constraints")
    \/ ~In(Constraints(d), "min_compounds_required")
    \/ Malformed(Constraints(d), "min_compounds_required")
    \/ ~In(Constraints(d), "max_pitstops")
    \/ Malformed(Constraints(d), "max_pitstops")
    \/ Malformed(d, "user_view")
    \/ Malformed(UserView(d), "planned_pit_laps")

DomainParseFails(d) ==
    \/ ~In(d, "metadata")                              \* data["metadata"]: KeyError
    \/ Malformed(d, "metadata")
    \/ ~In(d.metadata, "track")                        \* ["track"]: KeyError
    \/ Malformed(d.metadata, "track")
    \/ ~In(d.metadata.track, "laps")                   \* track["laps"]: KeyError
    \/ Malformed(d.metadata.track, "laps")             \* int(): ValueError
    \/ Malformed(d, "assumptions")                     \* .get on a scalar
    \/ Malformed(Assumptions(d), "constraints")
    \/ Malformed(Constraints(d), "min_compounds_required")
    \/ Malformed(Constraints(d), "max_pitstops")
    \/ Malformed(d, "user_view")                       \* .get on a scalar
    \/ Malformed(UserView(d), "planned_pit_laps")      \* list() of a number

total_laps(d) == ToInt(d.metadata.track.laps)

\* allow_used with used sets permitted when the constraint is absent
allow_used_DefaultTrue(d) ==
    IF Malformed(Constraints(d), "allow_used_tyre") THEN TRUE
    ELSE Get(Constraints(d), "allow_used_tyre", TRUE)

\* bool(x) of a scalar that is not a boolean (a non-empty string) is True
allow_used(d) ==
    IF Malformed(Constraints(d), "allow_used_tyre") THEN TRUE
    ELSE Get(Constraints(d), "allow_used_tyre", FALSE)
min_compounds(d) == ToInt(Get(Constraints(d), "min_compounds_required", 0))
max_pitstops(d) == ToInt(Get(Constraints(d), "max_pitstops", 99))
stints(d) == Get(d, "stints", <<>>)
uv_pit_laps(d) == Get(UserView(d), "planned_pit_laps", <<>>)

(***************************************************************************)
(* Messages.  An error or warning is the record of its message template    *)
(* (kind) and of the values the f-string interpolates.                     *)
(***************************************************************************)
None == "None"

\* s.get('stint_id')
StintId(s) == Get(s, "stint_id", None)

\* the compound as rules 1 and 2 read it (line 157): the enumeration's names
\* carry no surrounding whitespace, so strip() returns them as they are
Strip(c) == c

compounds(d) == [i \in 1..Len(stints(d)) |-> Strip(Get(stints(d)[i], "compound", ""))]

Range(f) == {f[i] : i \in DOMAIN f}

(***************************************************************************)
(* Rule 1, lines 156-162: at least 2 stints unless only wet compounds.     *)
(***************************************************************************)
\* only_wet without the test for an empty list
only_wet_AllOnly(d) ==
    \A i \in 1..Len(compounds(d)) : compounds(d)[i] \in {"Wet", "Intermediate"}

only_wet(d) ==
    /\ \A i \in 1..Len(compounds(d)) : compounds(d)[i] \in {"Wet", "Intermediate"}
    /\ Len(compounds(d)) > 0

Rule1(d) ==
    IF Len(stints(d)) < 2 /\ ~only_wet(d)
    THEN << [kind |-> "min_stints"] >>
    ELSE <<>>

(***************************************************************************)
(* Rule 2, lines 164-170: minimum number of dry compounds.                 *)
(***************************************************************************)
\* dry_compounds_used counting the wet compounds as well
dry_compounds_used_AnyCompound(d) == Range(compounds(d))

dry_compounds_used(d) == Range(compounds(d)) \cap {"Soft", "Medium", "Hard"}

Rule2(d) ==
    IF /\ dry_compounds_used(d) # {}
       /\ min_compounds(d) > 0
       /\ Cardinality(dry_compounds_used(d)) < min_compounds(d)
    THEN << [kind |-> "min_compounds", used |-> Cardinality(dry_compounds_used(d)),
             required |-> min_compounds(d)] >>
    ELSE <<>>

(***************************************************************************)
(* Rule 3, lines 172-178: pit-stop ceiling.                                *)
(***************************************************************************)
planned_inlaps(d) ==
    [i \in 1..Len(stints(d)) |-> ToInt(Get(stints(d)[i], "planned_inlap", 0))]

\* len([x for x in planned_inlaps if x and x > 0])
actual_stops(d) ==
    Cardinality({i \in 1..Len(stints(d)) :
                    planned_inlaps(d)[i] # 0 /\ planned_inlaps(d)[i] > 0})

Rule3(d) ==
    IF actual_stops(d) > max_pitstops(d)
    THEN << [kind |-> "max_pitstops", stops |-> actual_stops(d),
             max |-> max_pitstops(d)] >>
    ELSE <<>>

(***************************************************************************)
(* Rule 4, lines 180-193: continuity.  ContinuityAt is one turn of the     *)
(* loop; Python's i (1 .. len-1, prev = stints[i-1] counted from 0) is the *)
(* position j of prev counted from 1.                                      *)
(***************************************************************************)
IsLastTurn(d, j) == j = Len(stints(d)) - 1

\* ContinuityAt with the start lap compared to prev's in-lap itself
ContinuityAt_SameLap(d, j) ==
    LET prev == stints(d)[j]
        cur == stints(d)[j + 1]
        prev_in == ToInt(Get(prev, "planned_inlap", 0))
        cur_start == ToInt(Get(cur, "start_lap", 0))
    IN  (IF prev_in = 0 /\ ~IsLastTurn(d, j)
         THEN << [kind |-> "final_inlap", stint_id |-> StintId(prev)] >>
         ELSE <<>>)
        \o
        (IF prev_in # 0 /\ cur_start # prev_in
         THEN << [kind |-> "continuity", prev |-> StintId(prev), cur |-> StintId(cur),
                  expected |-> prev_in, got |-> cur_start] >>
         ELSE <<>>)

ContinuityAt(d, j) ==
    LET prev == stints(d)[j]
        cur == stints(d)[j + 1]
        prev_in == ToInt(Get(prev, "planned_inlap", 0))
        cur_start == ToInt(Get(cur, "start_lap", 0))
    IN  (IF prev_in = 0 /\ ~IsLastTurn(d, j)
         THEN << [kind |-> "final_inlap", stint_id |-> StintId(prev)] >>
         ELSE <<>>)
        \o
        (IF prev_in # 0 /\ cur_start # prev_in + 1
         THEN << [kind |-> "continuity", prev |-> StintId(prev), cur |-> StintId(cur),
                  expected |-> prev_in + 1, got |-> cur_start] >>
         ELSE <<>>)

RECURSIVE ContinuityFrom(_, _)
ContinuityFrom(d, j) ==
    IF j > Len(stints(d)) - 1 THEN <<>>
    ELSE ContinuityAt(d, j) \o ContinuityFrom(d, j + 1)

Rule4(d) == ContinuityFrom(d, 1)

(***************************************************************************)
(* Rule 5, lines 195-200: user_view.planned_pit_laps against the stints.   *)
(***************************************************************************)
RECURSIVE Insert(_, _)
\* the ascending sequence q with x put in its place
Insert(q, x) ==
    IF q = <<>> THEN <<x>>
    ELSE IF x <= Head(q) THEN <<x>> \o q
    ELSE <<Head(q)>> \o Insert(Tail(q), x)

RECURSIVE Sorted(_)
\* sorted(q)
Sorted(q) == IF q = <<>> THEN <<>> ELSE Insert(Sorted(Tail(q)), Head(q))

IsStop(x) == x > 0

\* [x for x in q if x > 0]
Positive(q) == SelectSeq(q, IsStop)

expected_uv(d) == Sorted(Positive(planned_inlaps(d)))

Rule5(d) ==
    IF uv_pit_laps(d) # expected_uv(d)
    THEN << [kind |-> "summary", uv |-> uv_pit_laps(d), expected |-> expected_uv(d)] >>
    ELSE <<>>

(***************************************************************************)
(* Rule 6, lines 202-226: used-tyre policy and inventory.                  *)
(***************************************************************************)
\* f"{comp}_{cond}" of a stint
Key(s) == Get(s, "compound", "") \o "_" \o Get(s, "set_condition", "new")

\* the first loop's errors (lines 209-212), in stint order
RECURSIVE UsedTyreFrom(_, _)
UsedTyreFrom(d, i) ==
    IF i > Len(stints(d)) THEN <<>>
    ELSE (IF Get(stints(d)[i], "set_condition", "new") = "used" /\ ~allow_used(d)
          THEN << [kind |-> "used_tyre", stint_id |-> StintId(stints(d)[i])] >>
          ELSE <<>>)
         \o UsedTyreFrom(d, i + 1)

\* usage[key]: the number of stints with that key
usage(d, key) == Cardinality({i \in 1..Len(stints(d)) : Key(stints(d)[i]) = key})

\* the keys of usage in the order a dict keeps them: by first insertion
RECURSIVE UsageKeysFrom(_, _, _)
UsageKeysFrom(d, i, seen) ==
    IF i > Len(stints(d)) THEN <<>>
    ELSE IF Key(stints(d)[i]) \in seen THEN UsageKeysFrom(d, i + 1, seen)
    ELSE <<Key(stints(d)[i])>> \o UsageKeysFrom(d, i + 1, seen \cup {Key(stints(d)[i])})

UsageKeys(d) == UsageKeysFrom(d, 1, {})

\* len(key.split("_")): one more than the number of underscores in key
SplitLen(key) == 1 + Cardinality({i \in 1..Len(key) : SubSeq(key, i, i) = "_"})

\* InventoryAt drawing on the new and the used sets of the compound together
InventoryAt_Pooled(d, key) ==
    LET c == CHOOSE x \in Compounds : key \in {x \o "_new", x \o "_used"}
        pool == Get(Inventory(d), c \o "_new", 0) + Get(Inventory(d), c \o "_used", 0)
    IN  IF In(Inventory(d), key)
        THEN IF usage(d, key) > pool
             THEN << [kind |-> "inventory_short", key |-> key,
                      count |-> usage(d, key), has |-> pool] >>
             ELSE <<>>
        ELSE << [kind |-> "inventory_missing", key |-> key, count |-> usage(d, key)] >>

\* InventoryAt letting a key be used once more than its entry
InventoryAt_OneOver(d, key) ==
    IF In(Inventory(d), key)
    THEN IF usage(d, key) > ToInt(Get(Inventory(d), key, 0)) + 1
         THEN << [kind |-> "inventory_short", key |-> key,
                  count |-> usage(d, key), has |-> Get(Inventory(d), key, None)] >>
         ELSE <<>>
    ELSE << [kind |-> "inventory_missing", key |-> key, count |-> usage(d, key)] >>

\* lines 215-226 for one key of usage
InventoryAt(d, key) ==
    IF SplitLen(key) = 2
    THEN IF In(Inventory(d), key)
         THEN IF usage(d, key) > ToInt(Get(Inventory(d), key, 0))
              THEN << [kind |-> "inventory_short", key |-> key,
                       count |-> usage(d, key), has |-> Get(Inventory(d), key, None)] >>
              ELSE <<>>
         ELSE << [kind |-> "inventory_missing", key |-> key, count |-> usage(d, key)] >>
    ELSE <<>>

RECURSIVE InventoryOver(_, _)
InventoryOver(d, keys) ==
    IF keys = <<>> THEN <<>>
    ELSE InventoryAt(d, Head(keys)) \o InventoryOver(d, Tail(keys))

Rule6(d) == UsedTyreFrom(d, 1) \o InventoryOver(d, UsageKeys(d))

(***************************************************************************)
(* Rule 7, lines 228-236: the advisory on long dry stints.  The test is    *)
(* tlen > 0.7 * total_laps in IEEE double arithmetic.  The double nearest  *)
(* to 0.7 lies below 0.7, so for a whole number N = 0.7 * total_laps the   *)
(* product rounds to the double just below N exactly when N lies above     *)
(* 1.75 times the largest power of two below N.                            *)
(***************************************************************************)
RECURSIVE Pow2Below(_, _)
\* the largest power of two below n, from the power p < n
Pow2Below(n, p) == IF 2 * p < n THEN Pow2Below(n, 2 * p) ELSE p

ProductRoundsBelow(total) ==
    /\ total > 10
    /\ (7 * total) % 10 = 0
    /\ LET N == (7 * total) \div 10 IN 4 * N > 7 * Pow2Below(N, 1)

\* tlen > 0.7 * total
Exceeds70(tlen, total) ==
    \/ 10 * tlen > 7 * total
    \/ 10 * tlen = 7 * total /\ ProductRoundsBelow(total)

RECURSIVE MarathonFrom(_, _)
MarathonFrom(d, i) ==
    IF i > Len(stints(d)) THEN <<>>
    ELSE LET s == stints(d)[i]
             comp == Get(s, "compound", "")
             tlen == ToInt(Get(s, "target_len_laps", 0))
         IN  (IF comp \in {"Soft", "Medium", "Hard"} /\ Exceeds70(tlen, total_laps(d))
              THEN << [kind |-> "marathon", compound |-> comp, tlen |-> tlen] >>
              ELSE <<>>)
             \o MarathonFrom(d, i + 1)

Rule7(d) == MarathonFrom(d, 1)

(***************************************************************************)
(* Exceptions raised outside the try blocks (lines 156-236) reach the      *)
(* caller.  Raises(d) lists them in the order the code meets them.         *)
(***************************************************************************)
Raises(d) ==
    \/ Malformed(d, "stints")                       \* line 157: no .get on an item
    \/ \E i \in 1..Len(stints(d)) :                 \* line 157: s.get, .strip()
          ~IsMapping(stints(d)[i]) \/ Malformed(stints(d)[i], "compound")
    \/ \E i \in 1..Len(stints(d)) :                 \* line 173: int()
          Malformed(stints(d)[i], "planned_inlap")
    \/ \E i \in 2..Len(stints(d)) :                 \* line 185: int()
          Malformed(stints(d)[i], "start_lap")
    \/ \E i \in 1..Len(stints(d)) :                 \* line 218: "in" on a number
          /\ SplitLen(Key(stints(d)[i])) = 2
          /\ Malformed(Assumptions(d), "tire_availability")
    \/ \E i \in 1..Len(stints(d)) :                 \* line 219: int()
          /\ SplitLen(Key(stints(d)[i])) = 2
          /\ Malformed(Inventory(d), Key(stints(d)[i]))
    \/ \E i \in 1..Len(stints(d)) :                 \* line 232: int()
          /\ Get(stints(d)[i], "compound", "") \in {"Soft", "Medium", "Hard"}
          /\ Malformed(stints(d)[i], "target_len_laps")

(***************************************************************************)
(* The report, lines 238-246: a sequence of sections, each a head line and *)
(* its bullets.                                                            *)
(***************************************************************************)
Section(head, bullets) == [head |-> head, bullets |-> bullets]

\* Render leaving the warnings out of a report that has errors
Render_ErrorsAlone(errs, warns) ==
    IF errs # <<>> THEN <<Section("ERRORS:", errs)>>
    ELSE IF warns # <<>> THEN <<Section("WARNINGS:", warns)>>
    ELSE <<Section("OK", <<>>)>>

Render(errs, warns) ==
    IF errs # <<>>
    THEN <<Section("ERRORS:", errs)>>
         \o (IF warns # <<>> THEN <<Section("WARNINGS:", warns)>> ELSE <<>>)
    ELSE IF warns # <<>> THEN <<Section("WARNINGS:", warns)>>
    ELSE <<Section("OK", <<>>)>>

\* Errors stopping at the first rule that records an error
Errors_FirstFailure(d) ==
    LET all == << Rule1(d), Rule2(d), Rule3(d), Rule4(d), Rule5(d), Rule6(d) >>
        failed == {k \in 1..6 : all[k] # <<>>}
    IN  IF failed = {} THEN <<>>
        ELSE all[CHOOSE k \in failed : \A m \in failed : k <= m]

\* the errors list, in the order the rules append to it
Errors(d) == Rule1(d) \o Rule2(d) \o Rule3(d) \o Rule4(d) \o Rule5(d) \o Rule6(d)

\* a warnings list kept between calls instead of being created by each call
Warnings_Kept(d) == warnings \o Rule7(d)

Warnings(d) == Rule7(d)

(***************************************************************************)
(* A tool call takes the candidate text and returns a result; the agent's  *)
(* message history keeps both.                                             *)
(***************************************************************************)
Text == [parses |-> parses, doc |-> doc]

LoggedText(tool, text, result) ==
    calls' = Append(calls, [tool |-> tool, text |-> text, result |-> result])

Logged(tool, result) == LoggedText(tool, Text, result)

(***************************************************************************)
(* domain_validate_strategy, lines 128-246.                                *)
(***************************************************************************)
DomainValidate ==
    /\ pc = "draft"
    /\ IF ~parses
       THEN /\ report' = <<Section("YAML parse error:", <<>>)>>
            /\ errors' = <<>> /\ warnings' = <<>> /\ pc' = "done"
       ELSE IF DomainParseFails(doc)
       THEN /\ report' = <<Section("Domain parse error:", <<>>)>>
            /\ errors' = <<>> /\ warnings' = <<>> /\ pc' = "done"
       ELSE IF Raises(doc)
       THEN /\ report' = <<>>
            /\ errors' = <<>> /\ warnings' = <<>> /\ pc' = "raised"
       ELSE /\ errors' = Errors(doc)
            /\ warnings' = Warnings(doc)
            /\ report' = Render(Errors(doc), Warnings(doc))
            /\ pc' = "done"
    /\ Logged("domain_validate_strategy", report')
    /\ UNCHANGED <<doc, parses, edits, store>>
    /\ UNCHANGED serverVars
    /\ UNCHANGED orchestrationVars

(***************************************************************************)
(* check_yaml_completeness, lines 101-125.  The whole body stands inside   *)
(* one try block, so every exception gives the "PARSE ERROR" result.       *)
(***************************************************************************)
required ==
    <<"version", "metadata", "assumptions", "user_view", "stints", "pit_ops", "costs">>

\* "s not in data": a key test on a mapping, a substring test on a plain
\* sentence (which holds none of the names)
NotIn(d, k) == IF IsMapping(d) THEN ~In(d, k) ELSE TRUE

\* [s for s in required if s not in data]
missing_sections(d) == SelectSeq(required, LAMBDA k : NotIn(d, k))

check_yaml_completeness(text_parses, d) ==
    IF ~text_parses THEN <<Section("PARSE ERROR:", <<>>)>>          \* yaml.safe_load raises
    ELSE IF ~IsMapping(d) /\ d.scalar = "null"
    THEN <<Section("PARSE ERROR:", <<>>)>>                          \* "in" on None: TypeError
    ELSE IF missing_sections(d) # <<>>
    THEN <<Section("INCOMPLETE: Missing sections:", missing_sections(d))>>
    ELSE IF Malformed(d, "stints")
    THEN <<Section("PARSE ERROR:", <<>>)>>                          \* len() of a number
    ELSE IF Len(stints(d)) = 0
    THEN <<Section("INCOMPLETE: stints section is empty", <<>>)>>
    ELSE <<Section("COMPLETE", <<>>)>>

CheckYamlCompleteness ==
    /\ pc = "draft"
    /\ report' = check_yaml_completeness(parses, doc)
    /\ pc' = "checked"
    /\ Logged("check_yaml_completeness", report')
    /\ UNCHANGED <<doc, parses, edits, errors, warnings, store>>
    /\ UNCHANGED serverVars
    /\ UNCHANGED orchestrationVars

(***************************************************************************)
(* The structural schema (strategy.schema.json), as the data model         *)
(* describes it: every section and field is required unless marked         *)
(* optional, each has its type, the inventory is a mapping of any keys to  *)
(* counts.  A violation is named by the path of the offending element: a   *)
(* sequence of keys [key |-> k] and list positions [index |-> n], counted  *)
(* from 0.                                                                 *)
(***************************************************************************)
AtKey(k) == [key |-> k]
AtIndex(n) == [index |-> n]

\* the violations of mapping m at path: a required key left out is a
\* violation of m itself, a value of the wrong type one of that value
MappingViolations(m, path, needed) ==
    (IF \E k \in needed : k \notin DOMAIN m /\ ~Malformed(m, k) THEN {path} ELSE {})
    \cup {path \o <<AtKey(k)>> : k \in Get(m, "malformed", {})}

Sub(m, k) == IF k \in DOMAIN m /\ ~Malformed(m, k) THEN m[k] ELSE EmptyMap

StintFields ==
    {"stint_id", "start_lap", "planned_inlap", "compound", "set_condition",
     "target_len_laps"}

StintViolations(d) ==
    UNION {IF IsMapping(stints(d)[i])
           THEN MappingViolations(stints(d)[i], <<AtKey("stints"), AtIndex(i - 1)>>,
                                  StintFields)
           ELSE {<<AtKey("stints"), AtIndex(i - 1)>>} : i \in 1..Len(stints(d))}

\* the keys a nested block must hold, when the block is there
Needed(m, k, keys) == IF k \in DOMAIN m /\ ~Malformed(m, k) THEN keys ELSE {}

SchemaViolations(d) ==
    IF ~IsMapping(d) THEN {<<>>}
    ELSE MappingViolations(d, <<>>, Range(required))
         \cup MappingViolations(Sub(d, "metadata"), <<AtKey("metadata")>>,
                                Needed(d, "metadata", {"track"}))
         \cup MappingViolations(Sub(Sub(d, "metadata"), "track"),
                                <<AtKey("metadata"), AtKey("track")>>,
                                Needed(Sub(d, "metadata"), "track", {"laps"}))
         \cup MappingViolations(Sub(d, "assumptions"), <<AtKey("assumptions")>>,
                                Needed(d, "assumptions",
                                       {"constraints", "tire_availability"}))
         \cup MappingViolations(Sub(Sub(d, "assumptions"), "constraints"),
                                <<AtKey("assumptions"), AtKey("constraints")>>,
                                Needed(Sub(d, "assumptions"), "constraints",
                                       {"min_compounds_required", "allow_used_tyre",
                                        "max_pitstops"}))
         \cup MappingViolations(Sub(Sub(d, "assumptions"), "tire_availability"),
                                <<AtKey("assumptions"), AtKey("tire_availability")>>, {})
         \cup MappingViolations(Sub(d, "user_view"), <<AtKey("user_view")>>,
                                Needed(d, "user_view", {"planned_pit_laps"}))
         \cup (IF Malformed(d, "stints") THEN {} ELSE StintViolations(d))

(***************************************************************************)
(* _validate_yaml_against_schema, lines 21-35, and validate_strategy_yaml, *)
(* lines 67-74.                                                            *)
(***************************************************************************)
Digits == <<"0", "1", "2", "3", "4", "5", "6", "7", "8", "9">>

RECURSIVE Repr(_)
\* repr(n) of a number n >= 0
Repr(n) == IF n < 10 THEN Digits[n + 1] ELSE Repr(n \div 10) \o Digits[(n % 10) + 1]

\* PathText writing a list position like a key
RECURSIVE PathText_Dotted(_)
PathText_Dotted(path) ==
    IF path = <<>> THEN ""
    ELSE (IF "index" \in DOMAIN Head(path)
          THEN "." \o Repr(Head(path).index)
          ELSE "." \o Head(path).key)
         \o PathText_Dotted(Tail(path))

RECURSIVE PathText(_)
\* "".join(f"[{repr(p)}]" if isinstance(p, int) else f".{p}" for p in e.path)
PathText(path) ==
    IF path = <<>> THEN ""
    ELSE (IF "index" \in DOMAIN Head(path)
          THEN "[" \o Repr(Head(path).index) \o "]"
          ELSE "." \o Head(path).key)
         \o PathText(Tail(path))

\* the results _validate_yaml_against_schema may return: <<>> stands for
\* None; of several violations the validator raises one
validate_yaml_against_schema(text_parses, d) ==
    IF ~text_parses THEN {<<Section("YAML parse error:", <<>>)>>}
    ELSE IF SchemaViolations(d) = {} THEN {<<>>}
    ELSE {<<Section("Schema validation error at", <<"$" \o PathText(path)>>)>> :
             path \in SchemaViolations(d)}

ValidateStrategyYaml ==
    /\ pc = "draft"
    /\ \E schema_exists \in BOOLEAN :
          IF ~schema_exists
          THEN report' = <<Section("ERROR: strategy.schema.json not found.", <<>>)>>
          ELSE \E err \in validate_yaml_against_schema(parses, doc) :
                  report' = IF err = <<>> THEN <<Section("OK", <<>>)>> ELSE err
    /\ pc' = "validated"
    /\ Logged("validate_strategy_yaml", report')
    /\ UNCHANGED <<doc, parses, edits, errors, warnings, store>>
    /\ UNCHANGED serverVars
    /\ UNCHANGED orchestrationVars

(***************************************************************************)
(* The cursor of src/db.py, lines 15-24: one cursor for the whole process. *)
(* A SELECT leaves its rows in it until they are fetched; any other        *)
(* statement leaves nothing to fetch.                                      *)
(***************************************************************************)
NoResult == [kind |-> "none", rows |-> <<>>]

\* cur.execute("SELECT details FROM strategies WHERE name = %s;", ...)
SelectDetails(name) ==
    [kind |-> "rows",
     rows |-> IF name \in DOMAIN store.rows
              THEN <<[details |-> store.rows[name]]>>
              ELSE <<>>]

\* the names a table may hold, in the order in which a SELECT returns them
NameOrder == <<"default_strategy", "two_sets", "long_hard">>

StoredNames == SelectSeq(NameOrder, LAMBDA n : n \in DOMAIN store.rows)

\* cur.execute("SELECT name FROM strategies;")
SelectNames ==
    [kind |-> "rows",
     rows |-> [i \in 1..Len(StoredNames) |-> [name |-> StoredNames[i]]]]

\* the cursor after a statement of a single-threaded caller: a SELECT whose
\* rows were fetched, or an INSERT or DELETE; untouched without a connection
Fetched == IF store.connected THEN [kind |-> "rows", rows |-> <<>>] ELSE cursor
Written == IF store.connected THEN NoResult ELSE cursor

(***************************************************************************)
(* save_updated_strategy, lines 77-88, with save_strategy of src/db.py,    *)
(* lines 53-66.                                                            *)
(***************************************************************************)
\* data.get("metadata", {}).get("strategy_name", "default_strategy")
strategy_name(d) == Get(Get(d, "metadata", EmptyMap), "strategy_name", "default_strategy")

\* save_strategy: nothing is written without a connection
save_strategy(name, details) ==
    IF store.connected
    THEN [store EXCEPT !.rows = Put(store.rows, name, details)]
    ELSE store

SaveUpdatedStrategy ==
    /\ pc = "draft"
    /\ IF ~parses \/ ~IsMapping(doc) \/ Malformed(doc, "metadata")
       THEN /\ report' = <<Section("ERROR saving strategy:", <<>>)>>
            /\ store' = store
            /\ cursor' = cursor
       ELSE /\ report' = <<Section("SAVED strategy", <<strategy_name(doc)>>)>>
            /\ store' = save_strategy(strategy_name(doc), doc)
            /\ cursor' = Written
    /\ pc' = "saved"
    /\ Logged("save_updated_strategy", report')
    /\ UNCHANGED <<doc, parses, edits, errors, warnings, requests>>
    /\ UNCHANGED orchestrationVars

(***************************************************************************)
(* diff_strategies, lines 91-98, with load_strategy of src/db.py, lines    *)
(* 40-50, and _unified_diff, lines 38-47.  A text is compared character by *)
(* character, so besides the document it deserializes to it carries its    *)
(* layout: dumped says that it is exactly what yaml.dump writes for the    *)
(* document (keys sorted, default flow style).                             *)
(***************************************************************************)
\* load_strategy: an empty mapping without a cursor, ValueError if no row
load_strategy(name) ==
    IF ~store.connected THEN [raised |-> FALSE, details |-> EmptyMap]
    ELSE IF name \in DOMAIN store.rows
         THEN [raised |-> FALSE, details |-> store.rows[name]]
         ELSE [raised |-> TRUE, details |-> EmptyMap]

\* yaml.dump(d)
Dump(d) == [parses |-> TRUE, doc |-> d, dumped |-> TRUE]

SectionDiffers(a, b, k) ==
    \/ (k \in DOMAIN a) # (k \in DOMAIN b)
    \/ k \in DOMAIN a /\ k \in DOMAIN b /\ a[k] # b[k]

\* the hunks of the diff, named by the sections whose lines changed
Hunks(a, b) ==
    IF ~b.parses THEN <<"text">>
    ELSE IF a.doc # b.doc
         THEN SelectSeq(required, LAMBDA k : SectionDiffers(a.doc, b.doc, k))
         ELSE <<"layout">>

\* difflib.unified_diff yields nothing for equal texts
unified_diff(a, b) ==
    IF a = b THEN <<>> ELSE <<Section("--- strategy.yaml", Hunks(a, b))>>

DiffStrategies ==
    /\ pc = "draft"
    /\ \E dumped \in BOOLEAN :
          /\ dumped => parses
          /\ LET new_yaml_text == [parses |-> parses, doc |-> doc, dumped |-> dumped]
                 old_yaml == load_strategy("default_strategy")
             IN  IF old_yaml.raised
                 THEN /\ report' = <<Section("ValueError", <<>>)>>
                      /\ pc' = "diff_raised"
                      /\ LoggedText("diff_strategies", new_yaml_text, report')
                 ELSE /\ report' = unified_diff(Dump(old_yaml.details), new_yaml_text)
                      /\ pc' = "diffed"
                      /\ LoggedText("diff_strategies", new_yaml_text, report')
    /\ cursor' = Fetched
    /\ UNCHANGED <<doc, parses, edits, errors, warnings, store, requests>>
    /\ UNCHANGED orchestrationVars

(***************************************************************************)
(* The environment: the implementation agent derives a candidate from a    *)
(* base document by changing one field at a time, at most MaxEdits times.  *)
(* The values it may write are drawn from the small sets below.            *)
(***************************************************************************)
InlapValues == {-1, 0, 17, 38}
StartValues == {18, 39}
CompoundValues == {"Soft", "Medium", "Wet"}
TargetLenValues == {40, 63}
LapsValues == {90}
MaxPitstopValues == {0, 1}
MinCompoundValues == {0, 3}
InventoryKeys == {"Intermediate_new", "Soft_new", "Soft_used"}
InventoryValues == {0, 2}
PitLapValues == {<<>>, <<17>>, <<38, 17>>, <<17, 38, 50>>}
StintNumberFields == {"planned_inlap", "start_lap", "target_len_laps"}

WithStint(d, i, s) == Put(d, "stints", [stints(d) EXCEPT ![i] = s])
WithConstraints(d, c) == Put(d, "assumptions", Put(Assumptions(d), "constraints", c))
WithInventory(d, v) == Put(d, "assumptions", Put(Assumptions(d), "tire_availability", v))

CanEdit == pc = "draft" /\ parses /\ edits < MaxEdits

\* the sections an edit of a nested field goes through are there
HasConstraints(d) ==
    "assumptions" \in DOMAIN d /\ "constraints" \in DOMAIN d.assumptions
HasInventory(d) ==
    "assumptions" \in DOMAIN d /\ "tire_availability" \in DOMAIN d.assumptions
HasUserView(d) == "user_view" \in DOMAIN d
HasTrack(d) == "metadata" \in DOMAIN d /\ "track" \in DOMAIN d.metadata

Sections == {"version", "metadata", "assumptions", "user_view", "stints", "pit_ops", "costs"}

\* the candidate becomes d
Rewrite(d) ==
    /\ CanEdit
    /\ d # doc
    /\ doc' = d
    /\ edits' = edits + 1
    /\ UNCHANGED <<parses, pc, errors, warnings, report, calls, store>>
    /\ UNCHANGED serverVars
    /\ UNCHANGED orchestrationVars

Editable(i) == i \in 1..Len(stints(doc)) /\ IsMapping(stints(doc)[i])

SetStintField ==
    \E i \in 1..3 :
        /\ Editable(i)
        /\ \/ \E v \in InlapValues :
                Rewrite(WithStint(doc, i, Put(stints(doc)[i], "planned_inlap", v)))
           \/ \E v \in StartValues :
                Rewrite(WithStint(doc, i, Put(stints(doc)[i], "start_lap", v)))
           \/ \E v \in TargetLenValues :
                Rewrite(WithStint(doc, i, Put(stints(doc)[i], "target_len_laps", v)))

SetCompound ==
    \E i \in 1..3, c \in CompoundValues :
        /\ Editable(i)
        /\ Rewrite(WithStint(doc, i, Put(stints(doc)[i], "compound", c)))

SetUsed ==
    \E i \in 1..3 :
        /\ Editable(i)
        /\ Rewrite(WithStint(doc, i, Put(stints(doc)[i], "set_condition", "used")))

\* keep only the first n stints
TruncateStints ==
    \E n \in 0..2 :
        /\ n < Len(stints(doc))
        /\ Rewrite(WithStints(doc, SubSeq(stints(doc), 1, n)))

SetConstraint ==
    \/ /\ HasConstraints(doc)
       /\ Rewrite(WithConstraints(doc, Put(Constraints(doc), "allow_used_tyre", TRUE)))
    \/ \E v \in MaxPitstopValues :
          /\ HasConstraints(doc)
          /\ Rewrite(WithConstraints(doc, Put(Constraints(doc), "max_pitstops", v)))
    \/ \E v \in MinCompoundValues :
          /\ HasConstraints(doc)
          /\ Rewrite(WithConstraints(doc,
                                     Put(Constraints(doc), "min_compounds_required", v)))

DropConstraint ==
    \E k \in {"allow_used_tyre", "max_pitstops", "min_compounds_required"} :
        HasConstraints(doc) /\ Rewrite(WithConstraints(doc, Del(Constraints(doc), k)))

SetInventory ==
    \E k \in InventoryKeys, v \in InventoryValues :
        HasInventory(doc) /\ Rewrite(WithInventory(doc, Put(Inventory(doc), k, v)))

DropInventory ==
    \E k \in InventoryKeys :
        HasInventory(doc) /\ Rewrite(WithInventory(doc, Del(Inventory(doc), k)))

SetPitLaps ==
    \E q \in PitLapValues :
        HasUserView(doc) /\ Rewrite(Put(doc, "user_view", Put(UserView(doc), "planned_pit_laps", q)))

\* another race distance
SetLaps ==
    \E v \in LapsValues :
        HasTrack(doc) /\ Rewrite(Put(doc, "metadata",
                    Put(doc.metadata, "track", Put(doc.metadata.track, "laps", v))))

\* a value of the wrong type: a lap or a count that is text, a compound that
\* is a number, a stint that is a scalar
SpoilValue ==
    \/ \E i \in 1..3, k \in StintNumberFields \cup {"compound"} :
          /\ Editable(i)
          /\ Rewrite(WithStint(doc, i, Spoil(stints(doc)[i], k)))
    \/ \E i \in 1..3 :
          /\ Editable(i)
          /\ Rewrite(WithStint(doc, i, [scalar |-> "text"]))
    \/ \E k \in InventoryKeys :
          HasInventory(doc) /\ Rewrite(WithInventory(doc, Spoil(Inventory(doc), k)))
    \/ /\ HasTrack(doc)
       /\ Rewrite(Put(doc, "metadata",
                      Put(doc.metadata, "track", Spoil(doc.metadata.track, "laps"))))
    \/ \E k \in {"allow_used_tyre", "max_pitstops", "min_compounds_required"} :
          /\ HasConstraints(doc)
          /\ Rewrite(WithConstraints(doc, Spoil(Constraints(doc), k)))
    \/ \E k \in {"constraints", "tire_availability"} :
          /\ "assumptions" \in DOMAIN doc
          /\ k \in DOMAIN doc.assumptions
          /\ Rewrite(Put(doc, "assumptions", Spoil(doc.assumptions, k)))
    \/ /\ HasUserView(doc)
       /\ "planned_pit_laps" \in DOMAIN doc.user_view
       /\ Rewrite(Put(doc, "user_view", Spoil(doc.user_view, "planned_pit_laps")))
    \/ \E k \in {"metadata", "assumptions", "user_view", "stints"} :
          k \in DOMAIN doc /\ Rewrite(Spoil(doc, k))

\* a section or a nested block left out
DropSection ==
    \/ \E k \in Sections : k \in DOMAIN doc /\ Rewrite(Del(doc, k))
    \/ \E k \in {"constraints", "tire_availability"} :
          /\ "assumptions" \in DOMAIN doc
          /\ k \in DOMAIN doc.assumptions
          /\ Rewrite(Put(doc, "assumptions", Del(doc.assumptions, k)))
    \/ /\ HasUserView(doc)
       /\ "planned_pit_laps" \in DOMAIN doc.user_view
       /\ Rewrite(Put(doc, "user_view", Del(doc.user_view, "planned_pit_laps")))
    \/ /\ HasTrack(doc)
       /\ "laps" \in DOMAIN doc.metadata.track
       /\ Rewrite(Put(doc, "metadata",
                      Put(doc.metadata, "track", Del(doc.metadata.track, "laps"))))

\* a text that deserializes to something other than a mapping
NoMapping ==
    \E v \in {"null", "text"} : Rewrite([scalar |-> v])

\* text that does not deserialize
Garble ==
    /\ CanEdit
    /\ parses' = FALSE
    /\ edits' = edits + 1
    /\ UNCHANGED <<doc, pc, errors, warnings, report, calls, store>>
    /\ UNCHANGED serverVars
    /\ UNCHANGED orchestrationVars

(***************************************************************************)
(* A POST /strategies request that has not arrived yet.                    *)
(***************************************************************************)
Requests == 1..NRequests

Idle ==
    [pc |-> "idle", name |-> "", strategy |-> EmptyMap, todo |-> <<>>,
     status |-> 0, body |-> "", before |-> <<>>, after |-> <<>>]

\* the orchestration around the tools, before any of it has run
NotCalled ==
    [how |-> "none", parses |-> FALSE, payload |-> [type |-> "null"],
     response |-> [kind |-> "none"]]

NotStarted ==
    [node |-> "START", change |-> 0, decision |-> "none", handoffs |-> 0, ran |-> <<>>]

\* final_yaml_text = None
NoText == [none |-> TRUE]

NotRun == [pc |-> "start", attempt |-> 0, final_yaml_text |-> NoText, tried |-> <<>>]

Init ==
    /\ doc \in BaseDocuments
    /\ parses = TRUE
    /\ edits = 0
    /\ pc = "draft"
    /\ errors = <<>>
    /\ warnings = <<>>
    /\ report = <<>>
    /\ calls = <<>>
    /\ store = [connected |-> TRUE, rows |-> [n \in {"default_strategy"} |-> BaselineStrategy]]
    /\ cursor = NoResult
    /\ requests = [id \in Requests |-> Idle]
    /\ justification = NotCalled
    /\ supervision = NotStarted
    /\ script = NotRun

Next ==
    \/ SetStintField
    \/ SetCompound
    \/ SetUsed
    \/ TruncateStints
    \/ SetConstraint
    \/ DropConstraint
    \/ SetInventory
    \/ DropInventory
    \/ SetPitLaps
    \/ SetLaps
    \/ SpoilValue
    \/ DropSection
    \/ NoMapping
    \/ Garble
    \/ DomainValidate
    \/ CheckYamlCompleteness
    \/ ValidateStrategyYaml

Spec == Init /\ [][Next]_vars

(***************************************************************************)
(* A session of the implementation agent: it holds the tools of lines      *)
(* 119-128 and calls them on candidate texts of its choice, in an order of *)
(* its choice, at most MaxCalls times.  The texts it may write are the     *)
(* ones below.                                                             *)
(***************************************************************************)
Named(d, name) == Put(d, "metadata", Put(d.metadata, "strategy_name", name))

TwoSets ==
    Named(Put(BaselineStrategy, "assumptions",
              Put(BaselineStrategy.assumptions, "tire_availability",
                  Put(BaselineInventory, "Intermediate_new", 2))),
          "two_sets")

LongHardStint ==
    Named(WithStints(BaselineStrategy,
                     <<DryStints[1], DryStints[2], Put(DryStints[3], "target_len_laps", 45)>>),
          "long_hard")

CandidateTexts ==
    {[parses |-> TRUE, doc |-> BaselineStrategy],
     [parses |-> TRUE, doc |-> TwoSets],
     [parses |-> TRUE, doc |-> LongHardStint],
     [parses |-> TRUE, doc |-> Del(BaselineStrategy, "costs")],
     [parses |-> FALSE, doc |-> BaselineStrategy]}

\* the agent goes on to its next tool call, on a text of its choice
Resume ==
    /\ pc # "draft"
    /\ Len(calls) < MaxCalls
    /\ \E t \in CandidateTexts : doc' = t.doc /\ parses' = t.parses
    /\ pc' = "draft"
    /\ UNCHANGED <<edits, errors, warnings, report, calls, store>>
    /\ UNCHANGED serverVars
    /\ UNCHANGED orchestrationVars

InitSession ==
    /\ \E t \in CandidateTexts : doc = t.doc /\ parses = t.parses
    /\ edits = 0
    /\ pc = "draft"
    /\ errors = <<>>
    /\ warnings = <<>>
    /\ report = <<>>
    /\ calls = <<>>
    /\ \E c \in BOOLEAN : \E names \in {{}, {"default_strategy"}} :
          /\ names = {} => c
          /\ store = [connected |-> c, rows |-> [n \in names |-> BaselineStrategy]]
    /\ cursor = NoResult
    /\ requests = [id \in Requests |-> Idle]
    /\ justification = NotCalled
    /\ supervision = NotStarted
    /\ script = NotRun

NextSession ==
    \/ DomainValidate
    \/ CheckYamlCompleteness
    \/ ValidateStrategyYaml
    \/ SaveUpdatedStrategy
    \/ DiffStrategies
    \/ Resume

Session == InitSession /\ [][NextSession]_vars

(***************************************************************************)
(* The store on its own: the four functions of src/db.py, lines 40-88,     *)
(* called one after the other by a single caller, at most MaxCalls times,  *)
(* on a table that starts empty.  ON CONFLICT (name) of line 62 makes the  *)
(* table hold at most one row per name.                                    *)
(***************************************************************************)
StrategyNames == Range(NameOrder)

StrategyDocuments == {BaselineStrategy, TwoSets, LongHardStint}

\* remove_strategy: nothing is deleted without a connection
remove_strategy(name) ==
    IF store.connected
    THEN [store EXCEPT !.rows = Del(store.rows, name)]
    ELSE store

\* list_strategies: an empty list without a cursor
list_strategies == IF store.connected THEN StoredNames ELSE <<>>

StoreSave ==
    /\ Len(calls) < MaxCalls
    /\ \E n \in StrategyNames : \E d \in StrategyDocuments :
          /\ store' = save_strategy(n, d)
          /\ LoggedText("save_strategy", [name |-> n, details |-> d], [returned |-> "None"])
    /\ cursor' = Written
    /\ UNCHANGED <<toolVars, requests>>
    /\ UNCHANGED orchestrationVars

StoreRemove ==
    /\ Len(calls) < MaxCalls
    /\ \E n \in StrategyNames :
          /\ store' = remove_strategy(n)
          /\ LoggedText("remove_strategy", [name |-> n], [returned |-> "None"])
    /\ cursor' = Written
    /\ UNCHANGED <<toolVars, requests>>
    /\ UNCHANGED orchestrationVars

StoreLoad ==
    /\ Len(calls) < MaxCalls
    /\ \E n \in StrategyNames :
          LoggedText("load_strategy", [name |-> n], load_strategy(n))
    /\ cursor' = Fetched
    /\ UNCHANGED <<toolVars, store, requests>>
    /\ UNCHANGED orchestrationVars

StoreList ==
    /\ Len(calls) < MaxCalls
    /\ LoggedText("list_strategies", [name |-> ""], [names |-> list_strategies])
    /\ cursor' = Fetched
    /\ UNCHANGED <<toolVars, store, requests>>
    /\ UNCHANGED orchestrationVars

InitStore ==
    /\ doc = BaselineStrategy
    /\ parses = TRUE
    /\ edits = 0
    /\ pc = "draft"
    /\ errors = <<>>
    /\ warnings = <<>>
    /\ report = <<>>
    /\ calls = <<>>
    /\ \E c \in BOOLEAN : store = [connected |-> c, rows |-> <<>>]
    /\ cursor = NoResult
    /\ requests = [id \in Requests |-> Idle]
    /\ justification = NotCalled
    /\ supervision = NotStarted
    /\ script = NotRun

NextStore ==
    \/ StoreSave
    \/ StoreRemove
    \/ StoreLoad
    \/ StoreList

Store == InitStore /\ [][NextStore]_vars

(***************************************************************************)
(* update_main_strategy of src/api.py, lines 45-72: POST /strategies.  The *)
(* handler is followed statement by statement; each cur.execute and each   *)
(* fetch of the functions it calls in src/db.py is a step of its own,      *)
(* since all requests of the process use the one cursor.  An exception     *)
(* raised at any step is answered by line 72.                              *)
(***************************************************************************)
PostedNames == {"", "ghost"} \cup StrategyNames

Answer(r, status, body, rows) ==
    [r EXCEPT !.pc = "done", !.status = status, !.body = body, !.after = rows]

\* a loop that removes every listed name
IsAlternative_Any(n) == TRUE

\* line 67
IsAlternative(n) == n # "default_strategy"

\* lines 55-60: the name is read, load_strategy starts
Receive(id) ==
    /\ requests[id].pc = "idle"
    /\ \E name \in PostedNames :
          LET r == [requests[id] EXCEPT !.name = name, !.before = store.rows]
          IN  IF name = ""
              THEN /\ requests' = [requests EXCEPT ![id] =
                                     Answer(r, 400, "strategy name is required", store.rows)]
                   /\ cursor' = cursor
              ELSE IF ~store.connected
              THEN /\ requests' = [requests EXCEPT ![id] =
                                     Answer(r, 404, "strategy not found", store.rows)]
                   /\ cursor' = cursor
              ELSE /\ requests' = [requests EXCEPT ![id] = [r EXCEPT !.pc = "load_fetch"]]
                   /\ cursor' = SelectDetails(name)
    /\ UNCHANGED <<toolVars, calls, store>>
    /\ UNCHANGED orchestrationVars

\* src/db.py lines 45-50 and src/api.py lines 61-62
LoadFetch(id) ==
    /\ requests[id].pc = "load_fetch"
    /\ LET r == requests[id]
       IN  IF cursor.kind = "none" \/ cursor.rows = <<>>
           THEN /\ requests' = [requests EXCEPT ![id] =
                                  Answer(r, 500, "internal server error", store.rows)]
                /\ cursor' = cursor
           ELSE /\ cursor' = [cursor EXCEPT !.rows = Tail(cursor.rows)]
                /\ IF "details" \notin DOMAIN Head(cursor.rows)
                   THEN requests' = [requests EXCEPT ![id] =
                                       Answer(r, 500, "internal server error", store.rows)]
                   ELSE IF Head(cursor.rows).details = EmptyMap
                   THEN requests' = [requests EXCEPT ![id] =
                                       Answer(r, 404, "strategy not found", store.rows)]
                   ELSE requests' = [requests EXCEPT ![id] =
                                       [r EXCEPT !.pc = "save",
                                                 !.strategy = Head(cursor.rows).details]]
    /\ UNCHANGED <<toolVars, calls, store>>
    /\ UNCHANGED orchestrationVars

\* line 65
Save(id) ==
    /\ requests[id].pc = "save"
    /\ store' = save_strategy("default_strategy", requests[id].strategy)
    /\ cursor' = Written
    /\ requests' = [requests EXCEPT ![id].pc = "list"]
    /\ UNCHANGED <<toolVars, calls>>
    /\ UNCHANGED orchestrationVars

\* line 66, src/db.py line 85
ListExecute(id) ==
    /\ requests[id].pc = "list"
    /\ cursor' = SelectNames
    /\ requests' = [requests EXCEPT ![id].pc = "list_fetch"]
    /\ UNCHANGED <<toolVars, calls, store>>
    /\ UNCHANGED orchestrationVars

\* src/db.py lines 86-88
ListFetch(id) ==
    /\ requests[id].pc = "list_fetch"
    /\ LET r == requests[id]
       IN  IF cursor.kind = "none"
           THEN /\ requests' = [requests EXCEPT ![id] =
                                  Answer(r, 500, "internal server error", store.rows)]
                /\ cursor' = cursor
           ELSE /\ cursor' = [cursor EXCEPT !.rows = <<>>]
                /\ IF \E i \in 1..Len(cursor.rows) : "name" \notin DOMAIN cursor.rows[i]
                   THEN requests' = [requests EXCEPT ![id] =
                                       Answer(r, 500, "internal server error", store.rows)]
                   ELSE requests' = [requests EXCEPT ![id] =
                                       [r EXCEPT !.pc = "remove",
                                                 !.todo = [i \in 1..Len(cursor.rows) |->
                                                              cursor.rows[i].name]]]
    /\ UNCHANGED <<toolVars, calls, store>>
    /\ UNCHANGED orchestrationVars

\* lines 66-70: one turn of the loop, or the answer after its last turn
Remove(id) ==
    /\ requests[id].pc = "remove"
    /\ LET r == requests[id]
       IN  IF r.todo = <<>>
           THEN /\ requests' = [requests EXCEPT ![id] =
                                  Answer(r, 200, "strategy set as main successfully", store.rows)]
                /\ UNCHANGED <<store, cursor>>
           ELSE /\ requests' = [requests EXCEPT ![id].todo = Tail(r.todo)]
                /\ IF IsAlternative(Head(r.todo))
                   THEN /\ store' = remove_strategy(Head(r.todo))
                        /\ cursor' = Written
                   ELSE UNCHANGED <<store, cursor>>
    /\ UNCHANGED <<toolVars, calls>>
    /\ UNCHANGED orchestrationVars

\* a request arrives while no other request is being handled
ReceiveAlone(id) ==
    /\ \A other \in Requests : requests[other].pc \in {"idle", "done"}
    /\ Receive(id)

InitServer ==
    /\ doc = BaselineStrategy
    /\ parses = TRUE
    /\ edits = 0
    /\ pc = "draft"
    /\ errors = <<>>
    /\ warnings = <<>>
    /\ report = <<>>
    /\ calls = <<>>
    /\ \E c \in BOOLEAN :
          store = [connected |-> c,
                   rows |-> [n \in StrategyNames |->
                               IF n = "two_sets" THEN TwoSets
                               ELSE IF n = "long_hard" THEN LongHardStint
                               ELSE BaselineStrategy]]
    /\ cursor = NoResult
    /\ requests = [id \in Requests |-> Idle]
    /\ justification = NotCalled
    /\ supervision = NotStarted
    /\ script = NotRun

\* requests handled one at a time
NextServer ==
    \E id \in Requests :
        \/ ReceiveAlone(id)
        \/ LoadFetch(id)
        \/ Save(id)
        \/ ListExecute(id)
        \/ ListFetch(id)
        \/ Remove(id)

Server == InitServer /\ [][NextServer]_vars

\* requests handled by concurrent threads of the one process
NextConcurrent ==
    \E id \in Requests :
        \/ Receive(id)
        \/ LoadFetch(id)
        \/ Save(id)
        \/ ListExecute(id)
        \/ ListFetch(id)
        \/ Remove(id)

Concurrent == InitServer /\ [][NextConcurrent]_vars

(***************************************************************************)
(* structured_justification_response of src/agents/report_generator.py,    *)
(* lines 26-64.  A JSON value is a record with its type: an object has     *)
(* fields (a function from the keys present), an array has items, a string *)
(* has a value.  A step of the function either goes on or raises.          *)
(***************************************************************************)
Obj(fields) == [type |-> "object", fields |-> fields]
Arr(items) == [type |-> "array", items |-> items]
Str(value) == [type |-> "string", value |-> value]
Num == [type |-> "number"]
Null == [type |-> "null"]

\* v.get(k, default), for a v that has a get method
JsonGet(v, k, default) == IF k \in DOMAIN v.fields THEN v.fields[k] ELSE default

\* what a for loop or any() runs over: the items of an array, the characters
\* of a string, the keys of an object; nothing else can be iterated
CanIterate(v) == v.type \in {"array", "string", "object"}

KeysOf(v) == CHOOSE seq \in [1..Cardinality(DOMAIN v.fields) -> DOMAIN v.fields] :
                 \A k \in DOMAIN v.fields : \E i \in DOMAIN seq : seq[i] = k

Elements(v) ==
    IF v.type = "array" THEN v.items
    ELSE IF v.type = "string" THEN [i \in 1..Len(v.value) |-> Str(SubSeq(v.value, i, i))]
    ELSE [i \in 1..Cardinality(DOMAIN v.fields) |-> Str(KeysOf(v)[i])]

\* line 55: any(src.get("type") == "FastF1" for src in ...), from item i on;
\* any() stops at the first source that is a FastF1 one
RECURSIVE AnyFastF1(_, _)
AnyFastF1(srcs, i) ==
    IF i > Len(srcs) THEN "no"
    ELSE IF srcs[i].type # "object" THEN "raises"
    ELSE IF JsonGet(srcs[i], "type", Null) = Str("FastF1") THEN "yes"
    ELSE AnyFastF1(srcs, i + 1)

\* lines 55-57 for one change
HasF1(ch) ==
    IF ch.type # "object" THEN "raises"
    ELSE IF ~CanIterate(JsonGet(ch, "sources", Arr(<<>>))) THEN "raises"
    ELSE AnyFastF1(Elements(JsonGet(ch, "sources", Arr(<<>>))), 1)

\* lines 53-57: the loop over the changes from change i on, with the misses
\* collected so far
RECURSIVE Misses(_, _, _)
Misses(chs, i, misses) ==
    IF i > Len(chs) THEN [raised |-> FALSE, misses |-> misses]
    ELSE IF HasF1(chs[i]) = "raises" THEN [raised |-> TRUE, misses |-> misses]
    ELSE IF HasF1(chs[i]) = "yes" THEN Misses(chs, i + 1, misses)
    ELSE Misses(chs, i + 1, Append(misses, JsonGet(chs[i], "change_id", Str("?"))))

Returned(kind) == [kind |-> kind]

\* lines 52-64, for the deserialized payload
CheckedPayload(obj) ==
    IF obj.type # "object" THEN Returned("raised")
    ELSE IF ~CanIterate(JsonGet(obj, "justifications", Arr(<<>>))) THEN Returned("raised")
    ELSE LET m == Misses(Elements(JsonGet(obj, "justifications", Arr(<<>>))), 1, <<>>)
         IN  IF m.raised THEN Returned("raised")
             ELSE IF m.misses # <<>>
                  THEN IF \E i \in 1..Len(m.misses) : m.misses[i].type # "string"
                       THEN Returned("raised")
                       ELSE Returned("ERROR: Every change must have at least one FastF1 citation")
             ELSE IF "strategy_id" \notin DOMAIN obj.fields
                       \/ "justifications" \notin DOMAIN obj.fields
                  THEN Returned("ERROR: payload must include 'strategy_id' and 'justifications'")
             ELSE [kind |-> "json", value |-> obj]

\* lines 36-50
structured_justification_response(how, text_parses, payload) ==
    IF how = "nothing" THEN Returned("ERROR: missing 'payload'")
    ELSE IF how = "payload" /\ ~text_parses THEN Returned("ERROR: invalid JSON")
    ELSE CheckedPayload(payload)

StructuredJustificationResponse ==
    /\ justification.how # "none"
    /\ justification.response = Returned("none")
    /\ justification' =
          [justification EXCEPT !.response =
              structured_justification_response(justification.how,
                                                justification.parses,
                                                justification.payload)]
    /\ UNCHANGED <<toolVars, calls, store, serverVars, supervision, script>>

(***************************************************************************)
(* The payloads the justification agent may send.                          *)
(***************************************************************************)
F1Source == Obj([type |-> Str("FastF1")])
DbSource == Obj([type |-> Str("DB")])
UntypedSource == Obj([ref |-> Str("lap 12")])

SourceLists ==
    {Arr(<<>>), Arr(<<F1Source>>), Arr(<<DbSource>>), Arr(<<DbSource, F1Source>>),
     Arr(<<F1Source, Str("FastF1")>>), Arr(<<Str("FastF1")>>), Arr(<<UntypedSource>>),
     Null, Str("")}

ChangeIds == {Str("c1"), Num}

Changes ==
    {Str("c1")}
    \cup {Obj([sources |-> srcs]) : srcs \in SourceLists}
    \cup {Obj([change_id |-> id]) : id \in ChangeIds}
    \cup {Obj([change_id |-> id, sources |-> srcs]) : id \in ChangeIds, srcs \in SourceLists}

JustificationLists ==
    {Null, Num, Str(""), Str("none"), Arr(<<>>), Obj(EmptyMap)}
    \cup {Arr(<<ch>>) : ch \in Changes}
    \cup {Arr(<<Obj([change_id |-> Str("c1"), sources |-> Arr(<<F1Source>>)]), ch>>) : ch \in Changes}

Payloads ==
    {Null, Num, Str("text"), Arr(<<>>), Obj(EmptyMap), Obj([strategy_id |-> Str("S1")])}
    \cup {Obj([justifications |-> js]) : js \in JustificationLists}
    \cup {Obj([strategy_id |-> Str("S1"), justifications |-> js]) : js \in JustificationLists}

InitJustify ==
    /\ doc = BaselineStrategy
    /\ parses = TRUE
    /\ edits = 0
    /\ pc = "draft"
    /\ errors = <<>>
    /\ warnings = <<>>
    /\ report = <<>>
    /\ calls = <<>>
    /\ store = [connected |-> TRUE, rows |-> [n \in {"default_strategy"} |-> BaselineStrategy]]
    /\ cursor = NoResult
    /\ requests = [id \in Requests |-> Idle]
    /\ \/ justification = [how |-> "nothing", parses |-> FALSE, payload |-> Null,
                           response |-> Returned("none")]
       \/ justification = [how |-> "payload", parses |-> FALSE, payload |-> Null,
                           response |-> Returned("none")]
       \/ \E how \in {"payload", "kwargs"} : \E payload \in Payloads :
             /\ how = "kwargs" => payload.type = "object" /\ payload.fields # EmptyMap
             /\ justification = [how |-> how, parses |-> TRUE, payload |-> payload,
                                 response |-> Returned("none")]
    /\ supervision = NotStarted
    /\ script = NotRun

NextJustify == StructuredJustificationResponse

Justify == InitJustify /\ [][NextJustify]_vars

(***************************************************************************)
(* The supervisor graph of src/supervisor.py, lines 95-152.  The           *)
(* supervisor holds three handoff tools, one per agent it can transfer to; *)
(* the other nodes are chained by the edges of lines 144-150.  It hands    *)
(* off at most MaxHandoffs times.                                          *)
(***************************************************************************)
ProposedChanges == {1, 2}

HandoffTargets == {"validator_agent", "analysis_agent", "implementation_agent"}

Decisions == {"APPROVE", "REJECT"}

\* the node has run on the change in hand
Ran(node) ==
    Append(supervision.ran,
           [node |-> node, change |-> supervision.change, decision |-> supervision.decision])

OtherThanSupervision == <<toolVars, calls, store, serverVars, justification, script>>

\* line 144
Start ==
    /\ supervision.node = "START"
    /\ supervision' = [supervision EXCEPT !.node = "supervisor"]
    /\ UNCHANGED OtherThanSupervision

\* lines 61-108: a handoff tool sends the task to its agent
SupervisorHandsOff ==
    /\ supervision.node = "supervisor"
    /\ supervision.handoffs < MaxHandoffs
    /\ \E agent \in HandoffTargets : \E change \in ProposedChanges :
          supervision' = [supervision EXCEPT !.node = agent,
                                             !.change = change,
                                             !.decision = "none",
                                             !.handoffs = @ + 1]
    /\ UNCHANGED OtherThanSupervision

\* line 150
SupervisorFinishes ==
    /\ supervision.node = "supervisor"
    /\ supervision' = [supervision EXCEPT !.node = "END"]
    /\ UNCHANGED OtherThanSupervision

\* src/agents/validator.py lines 39-51, then the edge of line 145
ValidatorRuns ==
    /\ supervision.node = "validator_agent"
    /\ \E decision \in Decisions :
          supervision' = [supervision EXCEPT
                             !.node = "analysis_agent",
                             !.decision = decision,
                             !.ran = Append(@, [node |-> "validator_agent",
                                                change |-> supervision.change,
                                                decision |-> decision])]
    /\ UNCHANGED OtherThanSupervision

\* line 147
AnalysisRuns ==
    /\ supervision.node = "analysis_agent"
    /\ supervision' = [supervision EXCEPT !.node = "justification_agent",
                                          !.ran = Ran("analysis_agent")]
    /\ UNCHANGED OtherThanSupervision

\* line 148
JustificationRuns ==
    /\ supervision.node = "justification_agent"
    /\ supervision' = [supervision EXCEPT !.node = "implementation_agent",
                                          !.ran = Ran("justification_agent")]
    /\ UNCHANGED OtherThanSupervision

\* line 149
ImplementationRuns ==
    /\ supervision.node = "implementation_agent"
    /\ supervision' = [supervision EXCEPT !.node = "supervisor",
                                          !.ran = Ran("implementation_agent")]
    /\ UNCHANGED OtherThanSupervision

InitGraph ==
    /\ doc = BaselineStrategy
    /\ parses = TRUE
    /\ edits = 0
    /\ pc = "draft"
    /\ errors = <<>>
    /\ warnings = <<>>
    /\ report = <<>>
    /\ calls = <<>>
    /\ store = [connected |-> TRUE, rows |-> [n \in {"default_strategy"} |-> BaselineStrategy]]
    /\ cursor = NoResult
    /\ requests = [id \in Requests |-> Idle]
    /\ justification = NotCalled
    /\ supervision = NotStarted
    /\ script = NotRun

NextGraph ==
    \/ Start
    \/ SupervisorHandsOff
    \/ SupervisorFinishes
    \/ ValidatorRuns
    \/ AnalysisRuns
    \/ JustificationRuns
    \/ ImplementationRuns

Graph == InitGraph /\ [][NextGraph]_vars

(***************************************************************************)
(* The generator script, src/agents/strategy_generator.py: the retry loop  *)
(* of lines 295-376, the guard of lines 378-379 and the final validation   *)
(* of lines 383-405.  What an attempt of the implementation agent yields   *)
(* is open: it raises, or no text can be extracted from its messages, or   *)
(* one of the candidate texts is extracted.                                *)
(***************************************************************************)
max_retries == 3

\* lines 36-59: the statements of check_yaml_completeness
check_yaml(text) == check_yaml_completeness(text.parses, text.doc)[1].head

\* sub in text
Contains(text, sub) ==
    \E i \in 1..(Len(text) - Len(sub) + 1) : SubSeq(text, i, i + Len(sub) - 1) = sub

OtherThanScript == <<toolVars, calls, store, serverVars, justification, supervision>>

\* line 298
EnterLoop ==
    /\ script.pc = "start"
    /\ script' = [script EXCEPT !.pc = "loop"]
    /\ UNCHANGED OtherThanScript

\* the loop goes to its next turn, or ends after the last one
NextTurn(attempt) == IF attempt < max_retries - 1 THEN "loop" ELSE "after"

\* lines 371-376: implementation_agent.invoke raises
AttemptRaises ==
    /\ script.pc = "loop"
    /\ script' = [script EXCEPT
                      !.pc = IF script.attempt < max_retries - 1 THEN "loop" ELSE "raised",
                      !.attempt = @ + 1,
                      !.tried = Append(@, [text |-> NoText, completeness |-> "raised"])]
    /\ UNCHANGED OtherThanScript

\* lines 308-346: nothing is extracted, final_yaml_text stays None
AttemptYieldsNothing ==
    /\ script.pc = "loop"
    /\ script' = [script EXCEPT
                      !.pc = NextTurn(script.attempt),
                      !.attempt = @ + 1,
                      !.tried = Append(@, [text |-> NoText, completeness |-> "none"])]
    /\ UNCHANGED OtherThanScript

\* lines 346-369: a text is extracted and checked
AttemptYieldsText ==
    /\ script.pc = "loop"
    /\ \E yaml_text \in CandidateTexts :
          LET completeness == check_yaml(yaml_text)
              tried == Append(script.tried,
                              [text |-> yaml_text, completeness |-> completeness])
          IN  IF Contains(completeness, "INCOMPLETE")
              THEN IF script.attempt < max_retries - 1
                   THEN script' = [script EXCEPT !.pc = "loop",
                                                 !.attempt = @ + 1,
                                                 !.final_yaml_text = NoText,
                                                 !.tried = tried]
                   ELSE script' = [script EXCEPT !.pc = "after",
                                                 !.attempt = @ + 1,
                                                 !.final_yaml_text = yaml_text,
                                                 !.tried = tried]
              ELSE script' = [script EXCEPT !.pc = "after",
                                            !.final_yaml_text = yaml_text,
                                            !.tried = tried]
    /\ UNCHANGED OtherThanScript

\* lines 378-379
Guard ==
    /\ script.pc = "after"
    /\ script' = [script EXCEPT
                      !.pc = IF script.final_yaml_text = NoText THEN "failed" ELSE "validate"]
    /\ UNCHANGED OtherThanScript

\* lines 383-405: only the schema is consulted
FinalValidation ==
    /\ script.pc = "validate"
    /\ \E schema_exists \in BOOLEAN :
          IF ~schema_exists
          THEN script' = [script EXCEPT !.pc = "raised"]
          ELSE \E schema_err \in validate_yaml_against_schema(script.final_yaml_text.parses,
                                                               script.final_yaml_text.doc) :
                  script' = [script EXCEPT
                                !.pc = IF schema_err # <<>> THEN "exit" ELSE "success"]
    /\ UNCHANGED OtherThanScript

InitScript ==
    /\ doc = BaselineStrategy
    /\ parses = TRUE
    /\ edits = 0
    /\ pc = "draft"
    /\ errors = <<>>
    /\ warnings = <<>>
    /\ report = <<>>
    /\ calls = <<>>
    /\ store = [connected |-> TRUE, rows |-> [n \in {"default_strategy"} |-> BaselineStrategy]]
    /\ cursor = NoResult
    /\ requests = [id \in Requests |-> Idle]
    /\ justification = NotCalled
    /\ supervision = NotStarted
    /\ script = NotRun

NextScript ==
    \/ EnterLoop
    \/ AttemptRaises
    \/ AttemptYieldsNothing
    \/ AttemptYieldsText
    \/ Guard
    \/ FinalValidation

Script == InitScript /\ [][NextScript]_vars

(***************************************************************************)
(* What the claims speak of.                                               *)
(***************************************************************************)
\* d has the sections and nested blocks of a strategy document, each of its
\* type: a mapping with metadata.track.laps, assumptions.constraints,
\* assumptions.tire_availability, user_view.planned_pit_laps and stints, and
\* no value of the wrong type (a constraint may still be left out)
Typed(d) ==
    /\ IsMapping(d)
    /\ "malformed" \notin DOMAIN d
    /\ {"metadata", "assumptions", "user_view", "stints"} \subseteq DOMAIN d
    /\ "track" \in DOMAIN d.metadata
    /\ DOMAIN d.metadata.track = {"laps"}
    /\ "malformed" \notin DOMAIN d.assumptions
    /\ {"constraints", "tire_availability"} \subseteq DOMAIN d.assumptions
    /\ "malformed" \notin DOMAIN d.assumptions.constraints
    /\ "malformed" \notin DOMAIN d.assumptions.tire_availability
    /\ DOMAIN d.user_view = {"planned_pit_laps"}
    /\ \A i \in 1..Len(d.stints) :
          IsMapping(d.stints[i]) /\ "malformed" \notin DOMAIN d.stints[i]

\* domain_validate_strategy returned a report of its rules on a typed document
RulesEvaluated ==
    /\ pc = "done"
    /\ report # <<>>
    /\ report[1].head \in {"OK", "ERRORS:", "WARNINGS:"}
    /\ Typed(doc)

Prefix == report[1].head

Stints == stints(doc)
NStints == Len(Stints)

\* the errors of one kind, in report order
IsKind(e, kinds) == e.kind \in kinds
ErrorsOf(kinds) == SelectSeq(errors, LAMBDA e : IsKind(e, kinds))
Reported(kinds) == \E n \in 1..Len(errors) : errors[n].kind \in kinds

(***************************************************************************)
(* C1.  Whenever the rules are evaluated, every stint other than the last  *)
(* whose planned_inlap is 0 gets an "Only final stint may have             *)
(* planned_inlap=0" error naming it, and the report is an ERRORS report.   *)
(* The code skips the second-to-last stint (line 186 compares the loop     *)
(* index, which is the position of cur, with the last position), so this   *)
(* statement of the claim is violated.                                     *)
(***************************************************************************)
C1_OnlyFinalStintRunsToFlag ==
    RulesEvaluated =>
        \A i \in 1..(NStints - 1) :
            Stints[i].planned_inlap = 0 =>
                /\ Prefix = "ERRORS:"
                /\ \E n \in 1..Len(errors) :
                      /\ errors[n].kind = "final_inlap"
                      /\ errors[n].stint_id = Stints[i].stint_id

(***************************************************************************)
(* C2.  Whenever the rules are evaluated, the continuity errors are, in    *)
(* order, one per adjacent pair (prev, cur) with prev.planned_inlap # 0    *)
(* and cur.start_lap # prev.planned_inlap + 1, each citing prev's and      *)
(* cur's stint_id, the expected and the actual start lap; a pair whose     *)
(* start lap fits gets none.                                               *)
(***************************************************************************)
BrokenPair(j) ==
    /\ Stints[j].planned_inlap # 0
    /\ Stints[j + 1].start_lap # Stints[j].planned_inlap + 1

BrokenPairs == {j \in 1..(NStints - 1) : BrokenPair(j)}

CitesPair(e, j) ==
    /\ e.prev = Stints[j].stint_id
    /\ e.cur = Stints[j + 1].stint_id
    /\ e.expected = Stints[j].planned_inlap + 1
    /\ e.got = Stints[j + 1].start_lap

C2_ContinuityErrorPerBrokenPair ==
    RulesEvaluated =>
        LET found == ErrorsOf({"continuity"})
        IN  /\ Len(found) = Cardinality(BrokenPairs)
            /\ \A j \in BrokenPairs :
                  \E n \in 1..Len(found) :
                      /\ CitesPair(found[n], j)
                      /\ n = Cardinality({k \in BrokenPairs : k <= j})

\* a document with a broken pair and a fitting pair has been validated
C2_Witness ==
    /\ RulesEvaluated
    /\ \E j \in 1..(NStints - 1) : BrokenPair(j)
    /\ \E j \in 1..(NStints - 1) :
          Stints[j].planned_inlap # 0 /\ ~BrokenPair(j)
    /\ Reported({"continuity"})

(***************************************************************************)
(* C3.  Whenever the rules are evaluated, for every key                    *)
(* "{compound}_{set_condition}" formed from the stints: a key absent from  *)
(* assumptions.tire_availability gives an "Inventory missing" error, a key *)
(* used more often than its own inventory entry gives a "Stints require"   *)
(* error, and a key used within its own entry gives neither.  So no        *)
(* inventory error is recorded only if every used key is present and       *)
(* within its own count; the other condition's entry is never drawn on.    *)
(***************************************************************************)
KeyOf(i) == Stints[i].compound \o "_" \o Stints[i].set_condition
TimesUsed(key) == Cardinality({i \in 1..NStints : KeyOf(i) = key})
Stock == doc.assumptions.tire_availability

C3_InventoryPerExactKey ==
    RulesEvaluated =>
        \A i \in 1..NStints :
            LET key == KeyOf(i)
                short == \E n \in 1..Len(errors) :
                            /\ errors[n].kind = "inventory_short"
                            /\ errors[n].key = key
                            /\ errors[n].count = TimesUsed(key)
                            /\ errors[n].has = Stock[key]
                missing == \E n \in 1..Len(errors) :
                            /\ errors[n].kind = "inventory_missing"
                            /\ errors[n].key = key
                            /\ errors[n].count = TimesUsed(key)
                any == \E n \in 1..Len(errors) :
                            /\ errors[n].kind \in {"inventory_short", "inventory_missing"}
                            /\ errors[n].key = key
            IN  IF key \notin DOMAIN Stock THEN missing
                ELSE IF TimesUsed(key) > Stock[key] THEN short
                ELSE ~any

\* one key is over its entry and another is absent from the inventory
C3_Witness ==
    /\ RulesEvaluated
    /\ Reported({"inventory_short"})
    /\ Reported({"inventory_missing"})

(***************************************************************************)
(* C4.  Scenario A is the baseline strategy of src/db.py: three stints     *)
(* Intermediate, Wet, Intermediate, all new, with Intermediate_new: 1.     *)
(* C4_ScenarioAAccepted states the claim as made: its report has no ERRORS *)
(* section.  C4_ScenarioARejectedOnInventory states what holds: the report *)
(* is an ERRORS report whose only error is that the stints require 2 of    *)
(* Intermediate_new while the inventory has 1, and the same document with  *)
(* Intermediate_new: 2 is reported OK.                                     *)
(***************************************************************************)
ScenarioA == BaselineStrategy

\* domain_validate_strategy returned on the text of document d
Validated(d) == pc = "done" /\ parses /\ doc = d

ScenarioAWithTwoSets ==
    [BaselineStrategy EXCEPT !.assumptions.tire_availability.Intermediate_new = 2]

C4_ScenarioAAccepted ==
    Validated(ScenarioA) => Prefix \in {"OK", "WARNINGS:"}

C4_ScenarioARejectedOnInventory ==
    /\ Validated(ScenarioA) =>
            report = << [head |-> "ERRORS:",
                         bullets |-> << [kind |-> "inventory_short",
                                         key |-> "Intermediate_new",
                                         count |-> 2, has |-> 1] >>] >>
    /\ Validated(ScenarioAWithTwoSets) =>
            report = << [head |-> "OK", bullets |-> <<>>] >>

\* Scenario A has been validated
C4_Witness == Validated(ScenarioA) /\ Prefix = "ERRORS:"

(***************************************************************************)
(* C5.  Whenever the rules are evaluated, the summary-consistency error is *)
(* recorded exactly when user_view.planned_pit_laps differs from the       *)
(* ascending list of all non-zero planned_inlap values.  The code keeps    *)
(* only the values above zero (line 196), so a negative planned_inlap      *)
(* violates this statement of the claim.                                   *)
(***************************************************************************)
IsNonZero(x) == x # 0
NonZeroInlaps == SelectSeq([i \in 1..NStints |-> Stints[i].planned_inlap], IsNonZero)

C5_SummaryMatchesNonZeroInlaps ==
    RulesEvaluated =>
        (Reported({"summary"}) <=> doc.user_view.planned_pit_laps # Sorted(NonZeroInlaps))

(***************************************************************************)
(* C6.  Whenever the rules are evaluated, the error "Planned stops=N       *)
(* exceed max_pitstops=M." is recorded exactly when the number N of stints *)
(* with a non-zero planned_inlap is greater than constraints.max_pitstops  *)
(* M.  The code counts only the values above zero (line 174), so a         *)
(* negative planned_inlap violates this statement of the claim.            *)
(***************************************************************************)
NonZeroStops == Cardinality({i \in 1..NStints : Stints[i].planned_inlap # 0})
Ceiling == doc.assumptions.constraints.max_pitstops

C6_CeilingCountsNonZeroInlaps ==
    (RulesEvaluated /\ "max_pitstops" \in DOMAIN doc.assumptions.constraints) =>
        IF NonZeroStops > Ceiling
        THEN ErrorsOf({"max_pitstops"}) =
                << [kind |-> "max_pitstops", stops |-> NonZeroStops, max |-> Ceiling] >>
        ELSE ~Reported({"max_pitstops"})

(***************************************************************************)
(* C7.  Whenever the rules are evaluated: if constraints.allow_used_tyre   *)
(* is false or absent, the used-tyre errors are, in stint order, one per   *)
(* stint with set_condition "used", each naming that stint's stint_id; if  *)
(* allow_used_tyre is true, no used-tyre error is recorded.                *)
(***************************************************************************)
UsedAllowed ==
    /\ "allow_used_tyre" \in DOMAIN doc.assumptions.constraints
    /\ doc.assumptions.constraints.allow_used_tyre = TRUE

IsUsedStint(s) == s.set_condition = "used"
UsedStints == SelectSeq(Stints, IsUsedStint)

C7_UsedTyreNeedsPermission ==
    RulesEvaluated =>
        LET found == ErrorsOf({"used_tyre"})
        IN  IF UsedAllowed THEN found = <<>>
            ELSE /\ Len(found) = Len(UsedStints)
                 /\ \A n \in 1..Len(found) : found[n].stint_id = UsedStints[n].stint_id

\* a used set was refused with allow_used_tyre absent
C7_Witness ==
    /\ RulesEvaluated
    /\ "allow_used_tyre" \notin DOMAIN doc.assumptions.constraints
    /\ Reported({"used_tyre"})

(***************************************************************************)
(* C8.  On every typed document that passes the parse step, all seven      *)
(* checks are evaluated: the call returns a report of the                  *)
(* rules, the errors list holds, for each of the checks 1..6, exactly the  *)
(* errors that check records on its own, in check order, and the warnings  *)
(* list holds what check 7 records; a document on which checks 1, 3 and 6  *)
(* each record an error gets an ERRORS report holding all of them.         *)
(* (Entries of the wrong type are the case of C9.)                         *)
(***************************************************************************)
\* every stint is a mapping and no stint field or inventory count is of the
\* wrong type
WellTyped ==
    /\ ~Malformed(doc, "stints")
    /\ \A i \in 1..NStints :
          IsMapping(Stints[i]) /\ "malformed" \notin DOMAIN Stints[i]
    /\ "malformed" \notin DOMAIN Inventory(doc)

\* domain_validate_strategy was called on a well-typed document that passes
\* the parse step
PassedParseStep ==
    /\ pc \in {"done", "raised"}
    /\ parses
    /\ Typed(doc)
    /\ ~DomainParseFails(doc)
    /\ WellTyped

KindsOfCheck ==
    << {"min_stints"}, {"min_compounds"}, {"max_pitstops"},
       {"final_inlap", "continuity"}, {"summary"},
       {"used_tyre", "inventory_short", "inventory_missing"} >>

CheckOf(e) == CHOOSE k \in 1..6 : e.kind \in KindsOfCheck[k]

OwnErrors(k) ==
    CASE k = 1 -> Rule1(doc) [] k = 2 -> Rule2(doc) [] k = 3 -> Rule3(doc)
      [] k = 4 -> Rule4(doc) [] k = 5 -> Rule5(doc) [] k = 6 -> Rule6(doc)

C9_AlwaysReturnsReport ==
    /\ pc # "raised"
    /\ pc = "done" =>
          Prefix \in {"OK", "ERRORS:", "WARNINGS:", "Domain parse error:",
                      "YAML parse error:"}

(***************************************************************************)
(* C10.  Whenever the rules are evaluated, the minimum-stint error is      *)
(* recorded exactly when the document has fewer than 2 stints and is not   *)
(* wet-exempt, where wet-exempt means that the stint list is non-empty and *)
(* every compound is Wet or Intermediate.                                  *)
(***************************************************************************)
WetExempt ==
    /\ NStints > 0
    /\ \A i \in 1..NStints : Stints[i].compound \in {"Wet", "Intermediate"}

C10_MinimumStints ==
    RulesEvaluated =>
        (Reported({"min_stints"}) <=> (NStints < 2 /\ ~WetExempt))

\* a single wet stint passed the minimum-stint rule
C10_Witness ==
    /\ RulesEvaluated
    /\ NStints = 1
    /\ WetExempt
    /\ ~Reported({"min_stints"})

(***************************************************************************)
(* C11.  Whenever the rules are evaluated, the errors list holds the error *)
(* "Uses K dry compound(s) but min_compounds_required=M." exactly when the *)
(* set of distinct compounds among Soft, Medium, Hard used by the stints   *)
(* is non-empty, M > 0 and its size K is below M, and then once, with that *)
(* K and M; a document using only Wet and Intermediate never gets it.      *)
(* Scenario B (Scenario A with stint 2 on Medium) gets it with K = 1 and   *)
(* M = 2.                                                                  *)
(***************************************************************************)
DryUsed == {Stints[i].compound : i \in 1..NStints} \cap {"Soft", "Medium", "Hard"}

Required ==
    IF "min_compounds_required" \in DOMAIN doc.assumptions.constraints
    THEN doc.assumptions.constraints.min_compounds_required
    ELSE 0

ScenarioB == WithStint(ScenarioA, 2, Put(ScenarioA.stints[2], "compound", "Medium"))

C11_DryCompoundDiversity ==
    /\ RulesEvaluated =>
          ErrorsOf({"min_compounds"}) =
              IF DryUsed # {} /\ Required > 0 /\ Cardinality(DryUsed) < Required
              THEN << [kind |-> "min_compounds", used |-> Cardinality(DryUsed),
                       required |-> Required] >>
              ELSE <<>>
    /\ (RulesEvaluated /\ DryUsed = {}) => ~Reported({"min_compounds"})
    /\ Validated(ScenarioB) =>
          ErrorsOf({"min_compounds"}) =
              << [kind |-> "min_compounds", used |-> 1, required |-> 2] >>

\* Scenario B has been validated and got the diversity error
C11_Witness ==
    /\ Validated(ScenarioB)
    /\ RulesEvaluated
    /\ Reported({"min_compounds"})

(***************************************************************************)
(* C12.  Whenever the rules are evaluated, the warnings list holds, in     *)
(* stint order, one warning per stint whose compound is Soft, Medium or    *)
(* Hard and whose target_len_laps is strictly above 70% of track.laps      *)
(* (10 * target_len_laps > 7 * track.laps) and no other; the finding is    *)
(* never an error; and when it is the only finding the report is a         *)
(* WARNINGS section alone.  The code compares with the double 0.7 *        *)
(* total_laps (line 233), which for 90 laps is 62.99999999999999, so a     *)
(* stint of exactly 70% is warned about: this statement of the claim is    *)
(* violated.                                                               *)
(***************************************************************************)
Laps == doc.metadata.track.laps

Over70(s) ==
    /\ s.compound \in {"Soft", "Medium", "Hard"}
    /\ "target_len_laps" \in DOMAIN s
    /\ 10 * s.target_len_laps > 7 * Laps

MarathonOf(s) == [kind |-> "marathon", compound |-> s.compound, tlen |-> s.target_len_laps]

LongStints == SelectSeq(Stints, Over70)

C12_AdvisoryStrictlyOver70 ==
    RulesEvaluated =>
        /\ warnings = [n \in 1..Len(LongStints) |-> MarathonOf(LongStints[n])]
        /\ ~Reported({"marathon"})
        /\ (errors = <<>> /\ warnings # <<>>) =>
               report = << [head |-> "WARNINGS:", bullets |-> warnings] >>

(***************************************************************************)
(* C13.  Whenever the rules are evaluated, the report is determined by the *)
(* errors and warnings lists: it is exactly OK iff both are empty; it      *)
(* begins with the ERRORS section iff the errors list is non-empty, and    *)
(* then a WARNINGS section follows iff the warnings list is non-empty; it  *)
(* begins with the WARNINGS section iff there are warnings and no errors;  *)
(* the bullets of the ERRORS section are the errors list and the bullets   *)
(* of the WARNINGS section are the warnings list, one bullet each, none    *)
(* dropped.                                                                *)
(***************************************************************************)
Heads == [n \in 1..Len(report) |-> report[n].head]

C13_RenderingFollowsLists ==
    RulesEvaluated =>
        /\ report = << [head |-> "OK", bullets |-> <<>>] >>
               <=> (errors = <<>> /\ warnings = <<>>)
        /\ Prefix = "ERRORS:" <=> errors # <<>>
        /\ Prefix = "ERRORS:" =>
               /\ report[1].bullets = errors
               /\ Heads = <<"ERRORS:", "WARNINGS:">> <=> warnings # <<>>
               /\ Heads = <<"ERRORS:">> <=> warnings = <<>>
               /\ warnings # <<>> => report[2].bullets = warnings
        /\ Prefix = "WARNINGS:" <=> (warnings # <<>> /\ errors = <<>>)
        /\ Prefix = "WARNINGS:" =>
               (Heads = <<"WARNINGS:">> /\ report[1].bullets = warnings)

\* a report with both sections has been returned
C13_Witness ==
    /\ RulesEvaluated
    /\ errors # <<>>
    /\ warnings # <<>>
    /\ Heads = <<"ERRORS:", "WARNINGS:">>

(***************************************************************************)
(* C15.  Whenever domain_validate_strategy reports no errors (OK, or       *)
(* WARNINGS only), start_lap is strictly increasing along the stint order. *)
(* Rule 4 (lines 181-193) compares each start_lap only with the preceding  *)
(* stint's planned_inlap and never reads the first stint's start_lap, so   *)
(* this statement of the claim is violated.                                *)
(***************************************************************************)
C15_StartLapsIncrease ==
    (RulesEvaluated /\ Prefix \in {"OK", "WARNINGS:"}) =>
        \A i \in 1..(NStints - 1) : Stints[i].start_lap < Stints[i + 1].start_lap

(***************************************************************************)
(* C18.  The fields the rules need are metadata.track.laps, the three      *)
(* constraints, assumptions.tire_availability, user_view.planned_pit_laps  *)
(* and stints.  C18_ParseErrorOnAbsentOrMalformed states the claim as      *)
(* made: on a text that deserializes with one of them absent or of the     *)
(* wrong type, the call returns a "Domain parse error" report.             *)
(* C18_ParseErrorOnUnreadableField states what holds: the report is        *)
(* "Domain parse error" exactly when track.laps cannot be read, or         *)
(* track.laps, min_compounds_required or max_pitstops is not a number, or  *)
(* assumptions, constraints or user_view is not a mapping, or              *)
(* planned_pit_laps is not a list; and a document from which fields are    *)
(* only left out, with track.laps readable, has its rules evaluated on the *)
(* defaults.                                                               *)
(***************************************************************************)
Called == pc \in {"done", "raised"} /\ parses

Missing(d, k) == k \notin DOMAIN d \/ Malformed(d, k)

Track ==
    IF IsMapping(doc) /\ ~Missing(doc, "metadata") /\ ~Missing(doc.metadata, "track")
    THEN doc.metadata.track
    ELSE EmptyMap

IsParseError == pc = "done" /\ Prefix = "Domain parse error:"

NeededFieldAbsentOrMalformed ==
    \/ Missing(Track, "laps")
    \/ \E k \in {"max_pitstops", "min_compounds_required", "allow_used_tyre"} :
          Missing(Constraints(doc), k)
    \/ Missing(Assumptions(doc), "tire_availability")
    \/ Missing(UserView(doc), "planned_pit_laps")
    \/ Missing(doc, "stints")

C18_ParseErrorOnAbsentOrMalformed ==
    (Called /\ NeededFieldAbsentOrMalformed) => IsParseError

Unreadable ==
    \/ Missing(Track, "laps")
    \/ Malformed(doc, "assumptions")
    \/ Malformed(Assumptions(doc), "constraints")
    \/ Malformed(Constraints(doc), "min_compounds_required")
    \/ Malformed(Constraints(doc), "max_pitstops")
    \/ Malformed(doc, "user_view")
    \/ Malformed(UserView(doc), "planned_pit_laps")

Marked(m) == "malformed" \in DOMAIN m

\* nothing in the document is of the wrong type (fields may be left out)
NothingMalformed ==
    /\ IsMapping(doc)
    /\ ~Marked(doc)
    /\ ~Marked(Assumptions(doc))
    /\ ~Marked(Constraints(doc))
    /\ ~Marked(Inventory(doc))
    /\ ~Marked(UserView(doc))
    /\ \A i \in 1..NStints : IsMapping(Stints[i]) /\ ~Marked(Stints[i])

C18_ParseErrorOnUnreadableField ==
    Called =>
        /\ IsParseError <=> Unreadable
        /\ (NothingMalformed /\ ~Missing(Track, "laps")) =>
               (pc = "done" /\ Prefix \in {"OK", "ERRORS:", "WARNINGS:"})

\* a document without max_pitstops had its rules evaluated
C18_Witness ==
    /\ Called
    /\ NothingMalformed
    /\ Missing(Constraints(doc), "max_pitstops")
    /\ pc = "done"
    /\ Prefix \in {"OK", "ERRORS:", "WARNINGS:"}

(***************************************************************************)
(* C16.  Every call of check_yaml_completeness returns COMPLETE,           *)
(* INCOMPLETE or PARSE ERROR.  On a text that deserializes, it returns     *)
(* COMPLETE iff the parsed document holds all seven top-level keys and its *)
(* stints value is not empty, and when keys are missing it returns         *)
(* INCOMPLETE listing exactly the missing keys, in the order version,      *)
(* metadata, assumptions, user_view, stints, pit_ops, costs; the type of a *)
(* section plays no part.  The code answers PARSE ERROR for the value of   *)
(* an empty text, which lacks all seven keys (line 115 raises TypeError    *)
(* inside the try block), and for a stints value that is a number (line    *)
(* 120), so this statement of the claim is violated.                       *)
(***************************************************************************)
CheckReturned == pc = "checked"

Holds(k) == IsMapping(doc) /\ (k \in DOMAIN doc \/ Malformed(doc, k))

MissingKeys == SelectSeq(required, LAMBDA k : ~Holds(k))

StintsEmpty == Holds("stints") /\ ~Malformed(doc, "stints") /\ doc.stints = <<>>

C16_CompleteByPresence ==
    CheckReturned =>
        /\ Len(report) = 1
        /\ Prefix \in {"COMPLETE", "INCOMPLETE: Missing sections:",
                       "INCOMPLETE: stints section is empty", "PARSE ERROR:"}
        /\ ~parses => Prefix = "PARSE ERROR:"
        /\ parses =>
             /\ Prefix = "COMPLETE" <=> (MissingKeys = <<>> /\ ~StintsEmpty)
             /\ MissingKeys # <<>> =>
                    report = << [head |-> "INCOMPLETE: Missing sections:",
                                 bullets |-> MissingKeys] >>

(***************************************************************************)
(* C17.  Whenever validate_strategy_yaml returns with the schema loaded,   *)
(* its result is one of three: OK (where _validate_yaml_against_schema     *)
(* returns None) iff the text deserializes and the parsed value satisfies  *)
(* the schema; "YAML parse error" iff the text does not deserialize, and   *)
(* then never "Schema validation error"; "Schema validation error at       *)
(* <path>" iff the text deserializes and violates the schema, the path     *)
(* naming an offending element as $.key[index].key: a third stint whose    *)
(* compound is not text is reported at $.stints[2].compound, a track.laps  *)
(* that is not a number at $.metadata.track.laps, a document that is no    *)
(* mapping at $.                                                           *)
(***************************************************************************)
SchemaLoaded == pc = "validated" /\ Prefix # "ERROR: strategy.schema.json not found."

Conforms == SchemaViolations(doc) = {}

DryStrategy == WithStints(BaselineStrategy, DryStints)

ThirdCompoundNotText == WithStint(DryStrategy, 3, Spoil(DryStints[3], "compound"))

LapsNotANumber ==
    [DryStrategy EXCEPT !.metadata.track = Spoil(DryStrategy.metadata.track, "laps")]

SchemaErrorAt(path_text) ==
    report = << [head |-> "Schema validation error at", bullets |-> <<path_text>>] >>

C17_ThreeOutcomes ==
    /\ (pc = "validated" /\ Prefix = "OK") => (parses /\ Conforms)
    /\ SchemaLoaded =>
        /\ Len(report) = 1
        /\ Prefix \in {"OK", "YAML parse error:", "Schema validation error at"}
        /\ Prefix = "OK" <=> (parses /\ Conforms)
        /\ Prefix = "YAML parse error:" <=> ~parses
        /\ Prefix = "Schema validation error at" <=> (parses /\ ~Conforms)
        /\ Prefix = "Schema validation error at" =>
               \E path \in SchemaViolations(doc) : SchemaErrorAt("$" \o PathText(path))
        /\ (parses /\ doc = ThirdCompoundNotText) => SchemaErrorAt("$.stints[2].compound")
        /\ (parses /\ doc = LapsNotANumber) => SchemaErrorAt("$.metadata.track.laps")
        /\ (parses /\ ~IsMapping(doc)) => SchemaErrorAt("$")

\* a schema violation inside the third stint has been reported
C17_Witness ==
    /\ SchemaLoaded
    /\ parses
    /\ doc = ThirdCompoundNotText
    /\ SchemaErrorAt("$.stints[2].compound")

(***************************************************************************)
(* C14: validation is deterministic and stateless.  Any two calls of       *)
(* domain_validate_strategy, and any two calls of check_yaml_completeness, *)
(* on the same document text return identical reports, whatever calls on   *)
(* other texts were made before or between them: no call leaves behind     *)
(* anything that a later call reads.                                       *)
(***************************************************************************)
Validators == {"domain_validate_strategy", "check_yaml_completeness"}

SameCall(i, j) ==
    /\ calls[i].tool \in Validators
    /\ calls[j].tool = calls[i].tool
    /\ calls[j].text = calls[i].text

C14_SameTextSameReport ==
    \A i \in 1..Len(calls) : \A j \in 1..Len(calls) :
        SameCall(i, j) => calls[j].result = calls[i].result

\* the same text domain-validated twice, with a call on another text that
\* produced a warning in between
C14_Witness ==
    /\ Len(calls) = 3
    /\ calls[1].tool = "domain_validate_strategy"
    /\ SameCall(1, 3)
    /\ calls[2].tool = "domain_validate_strategy"
    /\ calls[2].text # calls[1].text
    /\ \E n \in 1..Len(calls[2].result) : calls[2].result[n].head = "WARNINGS:"
    /\ \E n \in 1..Len(calls[1].result) : calls[1].result[n].head = "ERRORS:"

(***************************************************************************)
(* C19: the domain validator is called on a candidate text only after that *)
(* same text has passed the schema validator and the completeness checker. *)
(***************************************************************************)
Passed(n, tool, verdict) ==
    \E i \in 1..(n - 1) :
        /\ calls[i].tool = tool
        /\ calls[i].text = calls[n].text
        /\ Len(calls[i].result) = 1
        /\ calls[i].result[1].head = verdict

C19_DomainAfterSchemaAndCompleteness ==
    \A n \in 1..Len(calls) :
        calls[n].tool = "domain_validate_strategy"
            => /\ Passed(n, "validate_strategy_yaml", "OK")
               /\ Passed(n, "check_yaml_completeness", "COMPLETE")

(***************************************************************************)
(* C20: save_updated_strategy saves a candidate text only if domain        *)
(* validation of that text reports no errors (warnings are allowed).       *)
(***************************************************************************)
NoDomainErrors(t) ==
    /\ t.parses
    /\ ~DomainParseFails(t.doc)
    /\ ~Raises(t.doc)
    /\ Errors(t.doc) = <<>>

Saved(n) ==
    /\ calls[n].tool = "save_updated_strategy"
    /\ calls[n].result[1].head = "SAVED strategy"

C20_SavedOnlyWithoutDomainErrors ==
    \A n \in 1..Len(calls) : Saved(n) => NoDomainErrors(calls[n].text)

(***************************************************************************)
(* C21: none of the core components consults or changes the store.  For    *)
(* the three that take nothing but a text (completeness check, domain      *)
(* validation, diff reporting) this means that two calls on the same text  *)
(* return the same result whatever has been saved in between.              *)
(***************************************************************************)
TextOnlyTools ==
    {"check_yaml_completeness", "domain_validate_strategy", "diff_strategies"}

C21_CoreIgnoresStore ==
    \A i \in 1..Len(calls) : \A j \in 1..Len(calls) :
        (/\ calls[i].tool \in TextOnlyTools
         /\ calls[j].tool = calls[i].tool
         /\ calls[j].text = calls[i].text)
            => calls[j].result = calls[i].result

(***************************************************************************)
(* C22: the diff reporter has no failure mode: every call returns a diff,  *)
(* and the diff is empty exactly when the candidate text equals the        *)
(* baseline text.                                                          *)
(***************************************************************************)
BaselineText == Dump(load_strategy("default_strategy").details)

C22_DiffAlwaysReturns ==
    /\ pc # "diff_raised"
    /\ pc = "diffed" =>
          ((report = <<>>) <=> (calls[Len(calls)].text = BaselineText))

(***************************************************************************)
(* C29: when save_updated_strategy answers SAVED strategy N, the document  *)
(* is stored under N, so that load_strategy(N) returns it, and N is        *)
(* default_strategy only if the document names itself default_strategy.    *)
(***************************************************************************)
SavedName == report[1].bullets[1]

NamesItself(d, name) ==
    /\ "metadata" \in DOMAIN d
    /\ "strategy_name" \in DOMAIN d.metadata
    /\ d.metadata.strategy_name = name

C29_SavedUnderItsOwnName ==
    (pc = "saved" /\ report[1].head = "SAVED strategy") =>
        /\ load_strategy(SavedName) = [raised |-> FALSE, details |-> doc]
        /\ SavedName = "default_strategy" => NamesItself(doc, "default_strategy")

(***************************************************************************)
(* C23: the store is a map from name to the latest saved document.         *)
(* load_strategy(n) returns the document of the last save_strategy(n, d)   *)
(* if no remove_strategy(n) followed it, and reports not-found otherwise;  *)
(* list_strategies holds exactly the names so stored, each once.           *)
(***************************************************************************)
WritesBefore(n, k) ==
    {i \in 1..(k - 1) :
        /\ calls[i].tool \in {"save_strategy", "remove_strategy"}
        /\ calls[i].text.name = n}

LastWrite(n, k) ==
    CHOOSE i \in WritesBefore(n, k) : \A j \in WritesBefore(n, k) : j <= i

IsStored(n, k) ==
    /\ WritesBefore(n, k) # {}
    /\ calls[LastWrite(n, k)].tool = "save_strategy"

Occurrences(names, n) == Cardinality({i \in 1..Len(names) : names[i] = n})

C23_StoreIsAMap ==
    \A k \in 1..Len(calls) :
        /\ calls[k].tool = "load_strategy" =>
              LET n == calls[k].text.name
              IN  IF IsStored(n, k)
                  THEN calls[k].result =
                         [raised |-> FALSE, details |-> calls[LastWrite(n, k)].text.details]
                  ELSE calls[k].result.raised
        /\ calls[k].tool = "list_strategies" =>
              \A n \in StrategyNames :
                  Occurrences(calls[k].result.names, n) = IF IsStored(n, k) THEN 1 ELSE 0

(***************************************************************************)
(* C24: after a POST /strategies request naming a stored strategy N,       *)
(* handled with no other request in progress, has answered with its        *)
(* success message, the store holds exactly default_strategy, and its      *)
(* document is the one that was stored under N before the request.         *)
(***************************************************************************)
Succeeded(id) == requests[id].pc = "done" /\ requests[id].status = 200

OnlyDefault(rows, d) ==
    /\ DOMAIN rows = {"default_strategy"}
    /\ rows["default_strategy"] = d

C24_PromotedAndAlternativesRemoved ==
    \A id \in Requests :
        Succeeded(id) =>
            /\ requests[id].name \in DOMAIN requests[id].before
            /\ OnlyDefault(requests[id].after, requests[id].before[requests[id].name])

\* an alternative was promoted while another alternative was stored
C24_Witness ==
    \E id \in Requests :
        /\ Succeeded(id)
        /\ requests[id].name = "two_sets"
        /\ DOMAIN requests[id].before = StrategyNames
        /\ store.rows = requests[id].after

(***************************************************************************)
(* C26: POST /strategies with a name that is not stored answers 404,       *)
(* strategy not found, and an empty name answers 400; both leave the store *)
(* as it was.                                                              *)
(***************************************************************************)
C26_UnknownNameIs404 ==
    \A id \in Requests :
        requests[id].pc = "done" =>
            /\ requests[id].name = "" =>
                  /\ requests[id].status = 400
                  /\ requests[id].after = requests[id].before
            /\ (requests[id].name # "" /\ requests[id].name \notin DOMAIN requests[id].before) =>
                  /\ requests[id].status = 404
                  /\ requests[id].body = "strategy not found"
                  /\ requests[id].after = requests[id].before

(***************************************************************************)
(* C30: two concurrent POST /strategies requests name two different stored *)
(* strategies A and B.  Once both have finished, whatever the interleaving *)
(* of their steps, the store holds exactly default_strategy, with the      *)
(* document that was stored under A or the one that was stored under B.    *)
(***************************************************************************)
BothFinished(a, b) ==
    /\ store.connected
    /\ a # b
    /\ requests[a].pc = "done"
    /\ requests[b].pc = "done"
    /\ requests[a].name # requests[b].name
    /\ requests[a].name \in DOMAIN requests[a].before
    /\ requests[b].name \in DOMAIN requests[b].before

C30_ConcurrentPromotions ==
    \A a \in Requests : \A b \in Requests :
        BothFinished(a, b) =>
            \/ OnlyDefault(store.rows, requests[a].before[requests[a].name])
            \/ OnlyDefault(store.rows, requests[b].before[requests[b].name])

(***************************************************************************)
(* C25: structured_justification_response never raises: for every payload *)
(* it returns the JSON of the payload or a string starting with ERROR:,    *)
(* and it returns the JSON only for an object with the keys strategy_id    *)
(* and justifications in which every justification has a FastF1 source.    *)
(***************************************************************************)
Responded == justification.response.kind # "none"

CitesFastF1(ch) ==
    /\ ch.type = "object"
    /\ "sources" \in DOMAIN ch.fields
    /\ ch.fields.sources.type = "array"
    /\ \E i \in 1..Len(ch.fields.sources.items) : ch.fields.sources.items[i] = F1Source

WellJustified(obj) ==
    /\ obj.type = "object"
    /\ {"strategy_id", "justifications"} \subseteq DOMAIN obj.fields
    /\ CanIterate(obj.fields.justifications)
    /\ \A i \in 1..Len(Elements(obj.fields.justifications)) :
          CitesFastF1(Elements(obj.fields.justifications)[i])

C25_JsonOrErrorNeverRaises ==
    Responded =>
        /\ justification.response.kind # "raised"
        /\ justification.response.kind = "json" =>
              /\ justification.response.value = justification.payload
              /\ WellJustified(justification.payload)

(***************************************************************************)
(* C27: in the supervisor graph analysis_agent and implementation_agent    *)
(* run on a change only after validator_agent has run on that change and   *)
(* its latest decision on it was APPROVE.                                  *)
(***************************************************************************)
ValidationsBefore(n) ==
    {i \in 1..(n - 1) :
        /\ supervision.ran[i].node = "validator_agent"
        /\ supervision.ran[i].change = supervision.ran[n].change}

Approved(n) ==
    /\ ValidationsBefore(n) # {}
    /\ LET last == CHOOSE i \in ValidationsBefore(n) :
                       \A j \in ValidationsBefore(n) : j <= i
       IN  supervision.ran[last].decision = "APPROVE"

C27_OnlyApprovedChangesImplemented ==
    \A n \in 1..Len(supervision.ran) :
        supervision.ran[n].node \in {"analysis_agent", "implementation_agent"}
            => Approved(n)

(***************************************************************************)
(* C28: when the generator script goes on past the guard that follows its  *)
(* retry loop, final_yaml_text is a text for which check_yaml returned     *)
(* COMPLETE; a text checked INCOMPLETE or PARSE ERROR, on any attempt, is  *)
(* never carried forward to schema validation.                             *)
(***************************************************************************)
PastGuard == script.pc \in {"validate", "exit", "success"}

C28_OnlyCompleteTextCarriedForward ==
    PastGuard =>
        /\ script.final_yaml_text # NoText
        /\ check_yaml(script.final_yaml_text) = "COMPLETE"

=============================================================================
